---- MODULE Spec2Model ----
(***************************************************************************)
(* A model of Granite's glTF 2.0 exporter, scene_formats/gltf_export.cpp:  *)
(* the RemapState caches (filter_input, emit_buffer, emit_accessor,        *)
(* emit_sampler, emit_image, emit_texture, emit_environment,               *)
(* emit_material, emit_mesh, emit_meshes) and the order in which           *)
(* export_scene_to_glb drives them.                                        *)
(*                                                                         *)
(* Indices are zero-based as in the source; a C++ vector v is a TLA+       *)
(* sequence and v[i] is written At(v, i).  A HashMap<unsigned> is a        *)
(* function from fingerprints to indices.  A fingerprint is the tuple of   *)
(* the values fed to the Hasher, in feeding order: the 64-bit hash is      *)
(* taken to be injective on these tuples (the source compares hashes       *)
(* only).  A pointer into the scene (Remap::info) is the index of the      *)
(* element it points to.                                                   *)
(***************************************************************************)
EXTENDS Integers, Sequences, FiniteSets, TLC

VARIABLES
    workers,    \* the tasks of the ThreadGroup of the export, in the order of their creation
    doc,        \* the "images" array of the Document, and what export_scene_to_glb returned
    disk,       \* the file system: modification times, and the files the export wrote
    files,      \* the image files of the file system, by path
    scene,      \* the SceneInformation handed to the exporter: materials, meshes
    options,    \* the ExportOptions
    state,      \* the RemapState
    pc,         \* where export_scene_to_glb (or the driver of the calls) stands
    nodes,      \* the number of nodes walked so far
    call        \* the last call made on the RemapState: its name, arguments and outcome

vars == <<workers, doc, disk, files, scene, options, state, pc, nodes, call>>

(***************************************************************************)
(* Bounds of the model.                                                    *)
(***************************************************************************)
MaxMaterials == 2      \* materials of a scene
MaxMeshes == 2         \* meshes of a scene
MaxNodes == 2          \* nodes of a scene
MaxCalls == 3          \* calls made on one RemapState by a driver of single calls
AttributeCount == 2    \* ecast(MeshAttribute::Count): Position and the slots after it

(***************************************************************************)
(* Vectors and hash maps.                                                  *)
(***************************************************************************)
At(v, i) == v[i + 1]

SeqUpTo(S, n) == UNION {[1..k -> S] : k \in 0..n}

EmptyMap == <<>>

Has(map, h) == h \in DOMAIN map

Put(map, h, index) == [x \in DOMAIN map \cup {h} |-> IF x = h THEN index ELSE map[x]]

\* F(v), the value v computed once: "auto x = v;" followed by the statements F.
Bind(v, F(_)) == CHOOSE r \in {F(x) : x \in {v}} : TRUE

\* The history count of key k, and the history with one more call for k.
Count(map, k) == IF Has(map, k) THEN map[k] ELSE 0

Counted(map, k) == Put(map, k, Count(map, k) + 1)

\* std::max with a fault: resize(index + 1) without the std::max.
Max_taking_second(a, b) == b

Max(a, b) == IF a >= b THEN a ELSE b

\* std::vector::resize(n): keeps the first n elements, appends default elements.
Resize(v, n, default) == [i \in 1..n |-> IF i <= Len(v) THEN v[i] ELSE default]

(***************************************************************************)
(* GL enum codes, gltf_export.cpp:323-338.                                 *)
(***************************************************************************)
GL_BYTE == 5120
GL_UNSIGNED_BYTE == 5121
GL_SHORT == 5122
GL_UNSIGNED_SHORT == 5123
GL_INT == 5124
GL_UNSIGNED_INT == 5125
GL_FLOAT == 5126
GL_REPEAT == 10497
GL_CLAMP_TO_EDGE == 33071
GL_NEAREST == 9728
GL_LINEAR == 9729
GL_NEAREST_MIPMAP_NEAREST == 9984
GL_LINEAR_MIPMAP_NEAREST == 9985
GL_NEAREST_MIPMAP_LINEAR == 9986
GL_LINEAR_MIPMAP_LINEAR == 9987

(***************************************************************************)
(* The format tables.  A VkFormat is its name without the VK_FORMAT_       *)
(* prefix.  A throw is the value "throw".                                  *)
(***************************************************************************)
VK_FORMAT_UNDEFINED == "UNDEFINED"

get_accessor_type(format) ==
    CASE format \in {"R32_SFLOAT", "R8_UNORM", "R8_UINT", "R8_SNORM", "R8_SINT",
                     "R16_UNORM", "R16_UINT", "R16_SNORM", "R16_SINT",
                     "R32_UINT", "R32_SINT"} -> "SCALAR"
      [] format \in {"R32G32_SFLOAT", "R8G8_UNORM", "R8G8_UINT", "R8G8_SNORM", "R8G8_SINT",
                     "R16G16_UINT", "R16G16_SINT", "R16G16_SNORM", "R16G16_UNORM",
                     "R32G32_UINT", "R32G32_SINT"} -> "VEC2"
      [] format \in {"R32G32B32_SFLOAT", "R8G8B8_UNORM", "R8G8B8_UINT", "R8G8B8_SNORM",
                     "R8G8B8_SINT", "R16G16B16_UNORM", "R16G16B16_UINT",
                     "R16G16B16_SNORM", "R16G16B16_SINT"} -> "VEC3"
      [] format \in {"R32G32B32A32_SFLOAT", "R8G8B8A8_UNORM", "R8G8B8A8_UINT",
                     "R8G8B8A8_SNORM", "R8G8B8A8_SINT", "R16G16B16A16_UNORM",
                     "R16G16B16A16_UINT", "R16G16B16A16_SNORM", "R16G16B16A16_SINT",
                     "R32G32B32_UINT", "R32G32B32A32_UINT",
                     "R32G32B32_SINT", "R32G32B32A32_SINT"} -> "VEC4"
      [] OTHER -> "throw"

get_accessor_normalized(format) ==
    format \in {"R8_UNORM", "R8G8_UNORM", "R8G8B8_UNORM", "R8G8B8A8_UNORM",
                "R8_SNORM", "R8G8_SNORM", "R8G8B8_SNORM", "R8G8B8A8_SNORM",
                "R16_UNORM", "R16G16_UNORM", "R16G16B16_UNORM", "R16G16B16A16_UNORM",
                "R16_SNORM", "R16G16_SNORM", "R16G16B16_SNORM", "R16G16B16A16_SNORM"}

get_accessor_component(format) ==
    CASE format \in {"R32_SFLOAT", "R32G32_SFLOAT", "R32G32B32_SFLOAT",
                     "R32G32B32A32_SFLOAT"} -> GL_FLOAT
      [] format \in {"R8_UNORM", "R8G8_UNORM", "R8G8B8_UNORM", "R8G8B8A8_UNORM",
                     "R8_UINT", "R8G8_UINT", "R8G8B8_UINT", "R8G8B8A8_UINT"} -> GL_UNSIGNED_BYTE
      \* the first return of the case wins; the return GL_BYTE after it is dead code
      [] format \in {"R8_SNORM", "R8G8_SNORM", "R8G8B8_SNORM", "R8G8B8A8_SNORM",
                     "R8_SINT", "R8G8_SINT", "R8G8B8_SINT", "R8G8B8A8_SINT"} -> GL_UNSIGNED_BYTE
      [] format \in {"R16_UNORM", "R16G16_UNORM", "R16G16B16_UNORM", "R16G16B16A16_UNORM",
                     "R16_UINT", "R16G16_UINT", "R16G16B16_UINT",
                     "R16G16B16A16_UINT"} -> GL_UNSIGNED_SHORT
      [] format \in {"R16_SNORM", "R16G16_SNORM", "R16G16B16_SNORM", "R16G16B16A16_SNORM",
                     "R16_SINT", "R16G16_SINT", "R16G16B16_SINT",
                     "R16G16B16A16_SINT"} -> GL_SHORT
      [] format \in {"R32_UINT", "R32G32_UINT", "R32G32B32_UINT",
                     "R32G32B32A32_UINT"} -> GL_UNSIGNED_INT
      [] format \in {"R32_SINT", "R32G32_SINT", "R32G32B32_SINT",
                     "R32G32B32A32_SINT"} -> GL_INT
      [] OTHER -> "throw"

\* set_accessor_type: the three fields of an accessor that come from its format.
set_accessor_type(accessor, format) ==
    [accessor EXCEPT !.component = get_accessor_component(format),
                     !.type = get_accessor_type(format),
                     !.normalized = get_accessor_normalized(format)]

(***************************************************************************)
(* The emitted records and their default values (the member initializers   *)
(* of the structs).                                                        *)
(***************************************************************************)
NoAABB == <<0, 0>>     \* the AABB of an accessor nothing has set

EmittedAccessor == [view |-> 0, count |-> 0, type |-> "", component |-> 0, offset |-> 0,
                    aabb |-> NoAABB, normalized |-> FALSE, use_aabb |-> FALSE]

EmittedMesh == [index_accessor |-> -1, material |-> -1, attribute_mask |-> 0,
                attribute_accessor |-> [i \in 0..(AttributeCount - 1) |-> 0]]

EmittedMaterial == [base_color |-> -1, normal |-> -1, metallic_roughness |-> -1,
                    occlusion |-> -1, emissive |-> -1,
                    uniform_base_color |-> "one", uniform_emissive_color |-> "zero",
                    uniform_metallic |-> "one", uniform_roughness |-> "one",
                    lod_bias |-> "zero", normal_scale |-> "one",
                    pipeline |-> "Opaque", two_sided |-> FALSE]

EmittedEnvironment == [cube |-> -1, reflection |-> -1, irradiance |-> -1,
                       intensity |-> "one", fog_color |-> "unset", fog_falloff |-> "unset"]

Remap == [to_index |-> <<>>, hashmap |-> EmptyMap, info |-> <<>>]

\* A RemapState as export_scene_to_glb constructs it.  The last two fields are no
\* members of the struct: they are the history of the calls of emit_mesh and of
\* emit_material, the number of calls made so far with each index.
RemapState ==
    [mesh |-> Remap, material |-> Remap,
     glb_buffer_data |-> <<>>, buffer_hash |-> EmptyMap, buffer_views |-> <<>>,
     accessor_hash |-> EmptyMap, accessor_cache |-> <<>>,
     mesh_hash |-> {}, mesh_cache |-> <<>>,
     environment_cache |-> <<>>,
     material_hash |-> {}, material_cache |-> <<>>,
     texture_hash |-> EmptyMap, texture_cache |-> <<>>,
     image_hash |-> EmptyMap, image_cache |-> <<>>,
     sampler_hash |-> EmptyMap, sampler_cache |-> <<>>,
     mesh_group_hash |-> EmptyMap, mesh_group_cache |-> <<>>,
     emit_mesh_calls |-> EmptyMap, emit_material_calls |-> EmptyMap]

(***************************************************************************)
(* Fingerprints of the scene's materials and meshes.                       *)
(***************************************************************************)
\* RemapState::hash(const MaterialInfo &): the sampler and the swizzles are not fed.
hash_MaterialInfo(st, mat) ==
    <<"material",
      mat.base_color.path, mat.normal.path, mat.occlusion.path,
      mat.metallic_roughness.path, mat.emissive.path,
      mat.normal_scale, mat.uniform_metallic, mat.uniform_roughness,
      mat.uniform_base_color, mat.lod_bias, mat.uniform_emissive_color,
      mat.two_sided, mat.pipeline>>

\* hash(const Mesh &) with a fault: the mesh's own material index is fed, not the
\* canonical one.
hash_Mesh_raw_material(st, mesh) ==
    <<"mesh",
      mesh.topology, mesh.index_type, mesh.attribute_stride, mesh.position_stride,
      mesh.has_material,
      IF mesh.has_material THEN <<mesh.material_index>> ELSE <<>>,
      mesh.attribute_layout, mesh.static_aabb,
      mesh.positions, mesh.indices, mesh.attributes, mesh.count>>

\* RemapState::hash(const Mesh &): reads material.to_index when the mesh has a material.
hash_Mesh(st, mesh) ==
    <<"mesh",
      mesh.topology, mesh.index_type, mesh.attribute_stride, mesh.position_stride,
      mesh.has_material,
      IF mesh.has_material THEN <<At(st.material.to_index, mesh.material_index)>> ELSE <<>>,
      mesh.attribute_layout, mesh.static_aabb,
      mesh.positions, mesh.indices, mesh.attributes, mesh.count>>

(***************************************************************************)
(* filter_input: one iteration of its loop, and the loop over input        *)
(* elements from..Len(input)-1.  h is the fingerprint of element i.        *)
(***************************************************************************)
\* filter_input with a fault: a fingerprint seen before is given the index one past
\* the last canonical element.
filter_one_past_end(output, h, i) ==
    IF Has(output.hashmap, h)
    THEN [output EXCEPT !.to_index = Append(@, Len(output.info))]
    ELSE LET index == Len(output.info)
         IN [output EXCEPT !.to_index = Append(@, Len(output.info)),
                           !.info = Append(@, i),
                           !.hashmap = Put(@, h, index)]

\* filter_input with a fault: an element whose fingerprint was seen before replaces the
\* canonical element.
filter_one_keeping_last(output, h, i) ==
    IF Has(output.hashmap, h)
    THEN [output EXCEPT !.to_index = Append(@, output.hashmap[h]),
                        !.info[output.hashmap[h] + 1] = i]
    ELSE LET index == Len(output.info)
         IN [output EXCEPT !.to_index = Append(@, Len(output.info)),
                           !.info = Append(@, i),
                           !.hashmap = Put(@, h, index)]

filter_one(output, h, i) ==
    IF Has(output.hashmap, h)
    THEN [output EXCEPT !.to_index = Append(@, output.hashmap[h])]
    ELSE LET index == Len(output.info)
         IN [output EXCEPT !.to_index = Append(@, Len(output.info)),
                           !.info = Append(@, i),
                           !.hashmap = Put(@, h, index)]

RECURSIVE filter_materials(_, _, _)
filter_materials(st, input, i) ==
    IF i >= Len(input) THEN st
    ELSE filter_materials(
             [st EXCEPT !.material = filter_one(@, hash_MaterialInfo(st, At(input, i)), i)],
             input, i + 1)

RECURSIVE filter_meshes(_, _, _)
filter_meshes(st, input, i) ==
    IF i >= Len(input) THEN st
    ELSE filter_meshes(
             [st EXCEPT !.mesh = filter_one(@, hash_Mesh(st, At(input, i)), i)],
             input, i + 1)

(***************************************************************************)
(* The buffer and accessor caches.  Every emit operator yields the new     *)
(* RemapState in .st and the returned index in .ret.                       *)
(***************************************************************************)
\* (offset + 15) & ~15
Align16(offset) == ((offset + 15) \div 16) * 16

\* emit_buffer with a fault: the offset is rounded down to a multiple of 16, offset & ~15.
emit_buffer_rounding_down(st, view, stride) ==
    LET h == <<"buffer", view, stride>>
    IN  IF ~Has(st.buffer_hash, h)
        THEN LET index == Len(st.buffer_views)
                 offset == (Len(st.glb_buffer_data) \div 16) * 16
                 resized == Resize(st.glb_buffer_data, offset + Len(view), 0)
             IN [st |-> [st EXCEPT
                     !.glb_buffer_data =
                         [i \in 1..Len(resized) |->
                             IF i > offset THEN view[i - offset] ELSE resized[i]],
                     !.buffer_views = Append(@, [offset |-> offset, length |-> Len(view),
                                                 stride |-> stride]),
                     !.buffer_hash = Put(@, h, index)],
                 ret |-> index]
        ELSE [st |-> st, ret |-> st.buffer_hash[h]]

\* emit_buffer with a fault: the view starts at the end of the blob, unaligned.
emit_buffer_unaligned(st, view, stride) ==
    LET h == <<"buffer", view, stride>>
    IN  IF ~Has(st.buffer_hash, h)
        THEN LET index == Len(st.buffer_views)
                 offset == Len(st.glb_buffer_data)
             IN [st |-> [st EXCEPT
                     !.glb_buffer_data = st.glb_buffer_data \o view,
                     !.buffer_views = Append(@, [offset |-> offset, length |-> Len(view),
                                                 stride |-> stride]),
                     !.buffer_hash = Put(@, h, index)],
                 ret |-> index]
        ELSE [st |-> st, ret |-> st.buffer_hash[h]]

\* RemapState::emit_buffer: resize() pads the blob with zero bytes up to the aligned
\* offset, memcpy() writes the view's bytes after them.
emit_buffer(st, view, stride) ==
    LET h == <<"buffer", view, stride>>
    IN  IF ~Has(st.buffer_hash, h)
        THEN LET index == Len(st.buffer_views)
                 offset == Align16(Len(st.glb_buffer_data))
                 resized == Resize(st.glb_buffer_data, offset + Len(view), 0)
             IN [st |-> [st EXCEPT
                     !.glb_buffer_data =
                         [i \in 1..Len(resized) |->
                             IF i > offset THEN view[i - offset] ELSE resized[i]],
                     !.buffer_views = Append(@, [offset |-> offset, length |-> Len(view),
                                                 stride |-> stride]),
                     !.buffer_hash = Put(@, h, index)],
                 ret |-> index]
        ELSE [st |-> st, ret |-> st.buffer_hash[h]]

\* RemapState::emit_accessor.  set_accessor_type throws on a format outside the
\* tables, before anything is recorded: .thrown says so.
emit_accessor(st, view_index, format, offset, stride, count) ==
    LET h == <<"accessor", view_index, format, offset, stride, count>>
    IN  IF ~Has(st.accessor_hash, h)
        THEN LET index == Len(st.accessor_cache)
                 acc == set_accessor_type(
                            [EmittedAccessor EXCEPT !.count = count, !.view = view_index,
                                                    !.offset = offset],
                            format)
             IN IF get_accessor_type(format) = "throw"
                THEN [st |-> st, ret |-> 0, thrown |-> TRUE]
                ELSE [st |-> [st EXCEPT !.accessor_cache = Append(@, acc),
                                        !.accessor_hash = Put(@, h, index)],
                      ret |-> index, thrown |-> FALSE]
        ELSE [st |-> st, ret |-> st.accessor_hash[h], thrown |-> FALSE]

(***************************************************************************)
(* The texture graph: samplers, images, textures.                          *)
(***************************************************************************)
StockSamplers == {"TrilinearWrap", "TrilinearClamp", "LinearWrap", "LinearClamp",
                  "NearestClamp", "NearestWrap"}

\* The switch of emit_sampler: {mag_filter, min_filter, wrap_s, wrap_t}.
sampler_record(sampler) ==
    CASE sampler = "TrilinearWrap" ->
           [mag_filter |-> GL_LINEAR, min_filter |-> GL_LINEAR_MIPMAP_LINEAR,
            wrap_s |-> GL_REPEAT, wrap_t |-> GL_REPEAT]
      [] sampler = "TrilinearClamp" ->
           [mag_filter |-> GL_LINEAR, min_filter |-> GL_LINEAR_MIPMAP_LINEAR,
            wrap_s |-> GL_CLAMP_TO_EDGE, wrap_t |-> GL_CLAMP_TO_EDGE]
      [] sampler = "LinearWrap" ->
           [mag_filter |-> GL_LINEAR, min_filter |-> GL_LINEAR_MIPMAP_NEAREST,
            wrap_s |-> GL_REPEAT, wrap_t |-> GL_REPEAT]
      [] sampler = "LinearClamp" ->
           [mag_filter |-> GL_LINEAR, min_filter |-> GL_LINEAR_MIPMAP_NEAREST,
            wrap_s |-> GL_CLAMP_TO_EDGE, wrap_t |-> GL_CLAMP_TO_EDGE]
      [] sampler = "NearestClamp" ->
           [mag_filter |-> GL_NEAREST, min_filter |-> GL_NEAREST_MIPMAP_NEAREST,
            wrap_s |-> GL_CLAMP_TO_EDGE, wrap_t |-> GL_CLAMP_TO_EDGE]
      [] sampler = "NearestWrap" ->
           [mag_filter |-> GL_NEAREST, min_filter |-> GL_NEAREST_MIPMAP_NEAREST,
            wrap_s |-> GL_REPEAT, wrap_t |-> GL_REPEAT]
      [] OTHER ->
           [mag_filter |-> 0, min_filter |-> 0, wrap_s |-> 0, wrap_t |-> 0]

\* emit_sampler with a fault: the hash map is not consulted, every call appends.
emit_sampler_uncached(st, sampler) ==
    LET h == <<"sampler", sampler>>
        index == Len(st.sampler_cache)
    IN  [st |-> [st EXCEPT !.sampler_hash = Put(@, h, index),
                           !.sampler_cache = Append(@, sampler_record(sampler))],
         ret |-> index]

\* RemapState::emit_sampler
emit_sampler(st, sampler) ==
    LET h == <<"sampler", sampler>>
    IN  IF ~Has(st.sampler_hash, h)
        THEN LET index == Len(st.sampler_cache)
             IN [st |-> [st EXCEPT !.sampler_hash = Put(@, h, index),
                                   !.sampler_cache = Append(@, sampler_record(sampler))],
                 ret |-> index]
        ELSE [st |-> st, ret |-> st.sampler_hash[h]]

\* emit_image with a fault: the target path is derived from the role, family, quality
\* and mode of the image, not from its path.
emit_image_target_without_path(st, texture, type, compression, quality, mode) ==
    LET h == <<"image", texture.path, type, compression, quality, mode>>
    IN  IF ~Has(st.image_hash, h)
        THEN LET index == Len(st.image_cache)
             IN [st |-> [st EXCEPT
                     !.image_hash = Put(@, h, index),
                     !.image_cache = Append(@,
                         [source_path |-> texture.path,
                          target_relpath |->
                              <<<<"image", type, compression, quality, mode>>, ".ktx">>,
                          target_mime |-> "image/ktx", compression |-> compression,
                          compression_quality |-> quality, mode |-> mode, type |-> type,
                          swizzle |-> texture.swizzle, loaded_image |-> "null"])],
                 ret |-> index]
        ELSE [st |-> st, ret |-> st.image_hash[h]]

\* emit_image with a fault: the swizzle of the texture is fed to the Hasher as well.
emit_image_keyed_by_swizzle(st, texture, type, compression, quality, mode) ==
    LET h == <<"image", texture.path, texture.swizzle, type, compression, quality, mode>>
    IN  IF ~Has(st.image_hash, h)
        THEN LET index == Len(st.image_cache)
             IN [st |-> [st EXCEPT
                     !.image_hash = Put(@, h, index),
                     !.image_cache = Append(@,
                         [source_path |-> texture.path, target_relpath |-> <<h, ".ktx">>,
                          target_mime |-> "image/ktx", compression |-> compression,
                          compression_quality |-> quality, mode |-> mode, type |-> type,
                          swizzle |-> texture.swizzle, loaded_image |-> "null"])],
                 ret |-> index]
        ELSE [st |-> st, ret |-> st.image_hash[h]]

\* RemapState::emit_image: the swizzle of the texture is recorded but not fed to the
\* Hasher.  The target path is the decimal hash followed by ".ktx".
emit_image(st, texture, type, compression, quality, mode) ==
    LET h == <<"image", texture.path, type, compression, quality, mode>>
    IN  IF ~Has(st.image_hash, h)
        THEN LET index == Len(st.image_cache)
             IN [st |-> [st EXCEPT
                     !.image_hash = Put(@, h, index),
                     !.image_cache = Append(@,
                         [source_path |-> texture.path, target_relpath |-> <<h, ".ktx">>,
                          target_mime |-> "image/ktx", compression |-> compression,
                          compression_quality |-> quality, mode |-> mode, type |-> type,
                          swizzle |-> texture.swizzle, loaded_image |-> "null"])],
                 ret |-> index]
        ELSE [st |-> st, ret |-> st.image_hash[h]]

\* emit_texture with a fault: the image index is recorded without emitting the image.
emit_texture_no_image(st, texture, sampler, type, compression, quality, mode) ==
    Bind(emit_sampler(st, sampler), LAMBDA smp :
        LET image_index == Len(st.image_cache)
            sampler_index == smp.ret
            h == <<"texture", image_index, sampler_index>>
        IN  IF ~Has(smp.st.texture_hash, h)
            THEN LET index == Len(smp.st.texture_cache)
                 IN [st |-> [smp.st EXCEPT
                         !.texture_hash = Put(@, h, index),
                         !.texture_cache = Append(@, [image |-> image_index,
                                                      sampler |-> sampler_index])],
                     ret |-> index]
            ELSE [st |-> smp.st, ret |-> smp.st.texture_hash[h]])

\* RemapState::emit_texture
emit_texture(st, texture, sampler, type, compression, quality, mode) ==
    Bind(emit_image(st, texture, type, compression, quality, mode), LAMBDA img :
    Bind(emit_sampler(img.st, sampler), LAMBDA smp :
        LET image_index == img.ret
            sampler_index == smp.ret
            h == <<"texture", image_index, sampler_index>>
        IN  IF ~Has(smp.st.texture_hash, h)
            THEN LET index == Len(smp.st.texture_cache)
                 IN [st |-> [smp.st EXCEPT
                         !.texture_hash = Put(@, h, index),
                         !.texture_cache = Append(@, [image |-> image_index,
                                                      sampler |-> sampler_index])],
                     ret |-> index]
            ELSE [st |-> smp.st, ret |-> smp.st.texture_hash[h]]))

IdentitySwizzle == <<"R", "G", "B", "A">>

\* One "if (!path.empty()) env.slot = emit_texture(...)" of emit_environment.
environment_texture(st, path, compression, quality) ==
    IF path # ""
    THEN emit_texture(st, [path |-> path, swizzle |-> IdentitySwizzle], "LinearClamp",
                      "Emissive", compression, quality, "HDR")
    ELSE [st |-> st, ret |-> -1]

\* RemapState::emit_environment
emit_environment(st, cube, reflection, irradiance, intensity, fog_color, fog_falloff, compression, quality) ==
    Bind(environment_texture(st, cube, compression, quality), LAMBDA c :
    Bind(environment_texture(c.st, reflection, compression, quality), LAMBDA r :
    Bind(environment_texture(r.st, irradiance, compression, quality), LAMBDA i :
        LET env == [EmittedEnvironment EXCEPT
                       !.cube = c.ret, !.reflection = r.ret, !.irradiance = i.ret,
                       !.intensity = intensity, !.fog_color = fog_color,
                       !.fog_falloff = fog_falloff]
        IN  [i.st EXCEPT !.environment_cache = Append(@, env)])))

\* One "if (!material.slot.path.empty()) output.slot = emit_texture(...)" of
\* emit_material: .ret is the new value of the slot.
material_texture(st, old, texture, sampler, type, mode) ==
    IF texture.path # ""
    THEN emit_texture(st, texture, sampler, type, options.compression,
                      options.texcomp_quality, mode)
    ELSE [st |-> st, ret |-> old]

\* RemapState::emit_material
emit_material(st, remapped_material) ==
    LET material == At(scene.materials, At(st.material.info, remapped_material))
        cache == Resize(st.material_cache,
                        Max(Len(st.material_cache), remapped_material + 1), EmittedMaterial)
        output == At(cache, remapped_material)
    IN
    Bind([st EXCEPT !.material_cache = cache,
                    !.emit_material_calls = Counted(@, remapped_material)], LAMBDA st0 :
    Bind(material_texture(st0, output.normal, material.normal, material.sampler,
                          "Normal", "RGB"), LAMBDA n :
    Bind(material_texture(n.st, output.occlusion, material.occlusion, material.sampler,
                          "Occlusion", "RGB"), LAMBDA o :
    Bind(material_texture(o.st, output.base_color, material.base_color,
                          material.sampler, "BaseColor",
                          IF material.pipeline # "Opaque" THEN "sRGBA" ELSE "sRGB"),
         LAMBDA b :
    Bind(material_texture(b.st, output.metallic_roughness, material.metallic_roughness,
                          material.sampler, "MetallicRoughness", "RGB"), LAMBDA m :
    Bind(material_texture(m.st, output.emissive, material.emissive, material.sampler,
                          "Emissive", "sRGB"), LAMBDA e :
        [e.st EXCEPT !.material_cache[remapped_material + 1] =
            [output EXCEPT
                !.normal = n.ret, !.occlusion = o.ret, !.base_color = b.ret,
                !.metallic_roughness = m.ret, !.emissive = e.ret,
                !.uniform_base_color = material.uniform_base_color,
                !.uniform_emissive_color = material.uniform_emissive_color,
                !.uniform_metallic = material.uniform_metallic,
                !.uniform_roughness = material.uniform_roughness,
                !.lod_bias = material.lod_bias,
                !.normal_scale = material.normal_scale,
                !.pipeline = material.pipeline,
                !.two_sided = material.two_sided]]))))))

(***************************************************************************)
(* The analysis of an image.  A gli::texture is its format, its layers and *)
(* faces and the texels of its first layer, face and level, each a u8vec4  *)
(* <<r, g, b, a>>; width * height is the number of these texels.  A        *)
(* VkComponentSwizzle is its name without the prefix.  An operator that    *)
(* may throw yields the AnalysisResult in .result and says so in .thrown.  *)
(***************************************************************************)
\* The texture load_texture_from_file returns for a file it cannot load.
EmptyTexture == [format |-> "UNDEFINED", layers |-> 0, faces |-> 0, pixels |-> <<>>]

\* make_shared<AnalysisResult>(), which zeroes the members, and the two assignments of
\* analyze_image.
AnalysisResult(type, mode) ==
    [src_path |-> "", image |-> "null", compression |-> "zero", mode |-> mode,
     type |-> type, swizzle |-> <<"IDENTITY", "IDENTITY", "IDENTITY", "IDENTITY">>]

\* The channel of a texel a gli::swizzle selects.
Selected(texel, swiz) ==
    CASE swiz = "R" -> texel[1]
      [] swiz = "G" -> texel[2]
      [] swiz = "B" -> texel[3]
      [] swiz = "A" -> texel[4]

\* swizzle_image with a fault: the swizzle is validated and the texels are left alone.
swizzle_image_unapplied(result, swizzle) ==
    IF swizzle # IdentitySwizzle
    THEN IF \/ result.image.format \notin {"RGBA8_SRGB_PACK8", "RGBA8_UNORM_PACK8"}
            \/ \E c \in 1..4 : swizzle[c] \notin {"R", "G", "B", "A"}
         THEN [result |-> result, thrown |-> TRUE]
         ELSE [result |-> result, thrown |-> FALSE]
    ELSE [result |-> result, thrown |-> FALSE]

\* AnalysisResult::swizzle_image: image->swizzle<u8vec4>() rewrites every texel.
swizzle_image(result, swizzle) ==
    IF swizzle # IdentitySwizzle
    THEN IF \/ result.image.format \notin {"RGBA8_SRGB_PACK8", "RGBA8_UNORM_PACK8"}
            \/ \E c \in 1..4 : swizzle[c] \notin {"R", "G", "B", "A"}
         THEN [result |-> result, thrown |-> TRUE]
         ELSE [result |->
                  [result EXCEPT !.image.pixels =
                      [i \in 1..Len(result.image.pixels) |->
                          [c \in 1..4 |-> Selected(result.image.pixels[i], swizzle[c])]]],
               thrown |-> FALSE]
    ELSE [result |-> result, thrown |-> FALSE]

\* The loop of deduce_metallic_roughness_mode over src[i..count-1]: flags are the four
\* booleans it clears.
RECURSIVE scan_metallic_roughness(_, _, _)
scan_metallic_roughness(src, i, flags) ==
    IF i >= Len(src) THEN flags
    ELSE scan_metallic_roughness(src, i + 1,
             [roughness_one_only |-> flags.roughness_one_only /\ ~(At(src, i)[3] # 255),
              roughness_zero_only |-> flags.roughness_zero_only /\ ~(At(src, i)[3] # 0),
              metallic_one_only |-> flags.metallic_one_only /\ ~(At(src, i)[2] # 255),
              metallic_zero_only |-> flags.metallic_zero_only /\ ~(At(src, i)[2] # 0)])

\* deduce_metallic_roughness_mode with a fault: the layers and faces are not looked at.
deduce_metallic_roughness_mode_of_any_image(result) ==
    LET f == scan_metallic_roughness(result.image.pixels, 0,
                 [metallic_zero_only |-> TRUE, metallic_one_only |-> TRUE,
                  roughness_zero_only |-> TRUE, roughness_one_only |-> TRUE])
    IN  IF /\ ~f.metallic_zero_only /\ ~f.metallic_one_only
           /\ (f.roughness_one_only \/ f.roughness_zero_only)
        THEN IF f.roughness_one_only THEN "MetallicRough" ELSE "MetallicSmooth"
        ELSE IF /\ ~f.roughness_zero_only /\ ~f.roughness_one_only
                /\ (f.metallic_one_only \/ f.metallic_zero_only)
        THEN IF f.metallic_one_only THEN "RoughnessMetal" ELSE "RoughnessDielectric"
        ELSE "Default"

\* AnalysisResult::deduce_metallic_roughness_mode
deduce_metallic_roughness_mode(result) ==
    IF result.image.layers > 1 \/ result.image.faces > 1 THEN "Default"
    ELSE
    LET f == scan_metallic_roughness(result.image.pixels, 0,
                 [metallic_zero_only |-> TRUE, metallic_one_only |-> TRUE,
                  roughness_zero_only |-> TRUE, roughness_one_only |-> TRUE])
    IN  IF /\ ~f.metallic_zero_only /\ ~f.metallic_one_only
           /\ (f.roughness_one_only \/ f.roughness_zero_only)
        THEN IF f.roughness_one_only THEN "MetallicRough" ELSE "MetallicSmooth"
        ELSE IF /\ ~f.roughness_zero_only /\ ~f.roughness_one_only
                /\ (f.metallic_one_only \/ f.metallic_zero_only)
        THEN IF f.metallic_one_only THEN "RoughnessMetal" ELSE "RoughnessDielectric"
        ELSE "Default"

\* AnalysisResult::load_image: the texture of the file, swizzled as the material asks.
\* .ret is the bool it returns.
load_image(result, src, swizzle) ==
    LET loaded == [result EXCEPT !.src_path = src, !.image = files[src]]
    IN  IF loaded.image = EmptyTexture
        THEN [result |-> loaded, ret |-> FALSE, thrown |-> FALSE]
        ELSE Bind(swizzle_image(loaded, swizzle), LAMBDA s :
                 IF s.thrown THEN [result |-> s.result, ret |-> FALSE, thrown |-> TRUE]
                 ELSE [result |-> [s.result EXCEPT !.swizzle = IdentitySwizzle],
                       ret |-> TRUE, thrown |-> FALSE])

\* One case of the switches of deduce_compression: "compression = c;
\* swizzle_image(image_swizzle); swizzle = output;".  A case that has no swizzle_image
\* passes the identity, one that does not assign the swizzle passes the swizzle it has.
plan(result, compression, image_swizzle, output) ==
    Bind(swizzle_image([result EXCEPT !.compression = compression], image_swizzle),
         LAMBDA s :
             IF s.thrown THEN s
             ELSE [result |-> [s.result EXCEPT !.swizzle = output], thrown |-> FALSE])

\* The codec of family BC with a fault: the mode is not looked at.
hdr_override_never(compression, mode) == compression

\* if (mode == TextureMode::HDR) compression = TextureCompression::BC6H;
hdr_override(compression, mode) == IF mode = "HDR" THEN "BC6H" ELSE compression

\* The case MetallicRoughness of deduce_compression, for the codecs of the three modes.
plan_metallic_roughness(result, default, roughness, metallic, default_swizzle, default_output) ==
    LET mr_mode == deduce_metallic_roughness_mode(result)
    IN  CASE mr_mode = "Default" -> plan(result, default, default_swizzle, default_output)
          [] mr_mode \in {"MetallicRough", "MetallicSmooth"} ->
               plan(result, metallic, <<"B", "B", "B", "B">>,
                    <<"ZERO", IF mr_mode = "MetallicRough" THEN "ONE" ELSE "ZERO",
                      "R", "ZERO">>)
          [] mr_mode \in {"RoughnessDielectric", "RoughnessMetal"} ->
               plan(result, roughness, <<"G", "G", "G", "G">>,
                    <<"ZERO", "R",
                      IF mr_mode = "RoughnessMetal" THEN "ONE" ELSE "ZERO", "ZERO">>)

\* AnalysisResult::deduce_compression
deduce_compression(result, family) ==
    CASE family = "ASTC" ->
           CASE result.type \in {"BaseColor", "Emissive"} ->
                  plan(result, "ASTC6x6", IdentitySwizzle, result.swizzle)
             [] result.type = "Occlusion" ->
                  plan(result, "ASTC6x6", <<"R", "R", "R", "R">>, result.swizzle)
             [] result.type = "Normal" ->
                  plan(result, "ASTC6x6", <<"R", "R", "R", "G">>,
                       <<"R", "A", "ONE", "ONE">>)
             [] result.type = "MetallicRoughness" ->
                  plan_metallic_roughness(result, "ASTC6x6", "ASTC6x6", "ASTC6x6",
                                          <<"G", "G", "G", "B">>,
                                          <<"ZERO", "R", "A", "ZERO">>)
             [] OTHER -> [result |-> result, thrown |-> TRUE]
      [] family = "BC" ->
           Bind(CASE result.type \in {"BaseColor", "Emissive"} ->
                       plan(result, "BC7", IdentitySwizzle, result.swizzle)
                  [] result.type = "Occlusion" ->
                       plan(result, "BC4", IdentitySwizzle, result.swizzle)
                  [] result.type = "MetallicRoughness" ->
                       plan_metallic_roughness(result, "BC5", "BC4", "BC4",
                                               <<"G", "B", "B", "A">>,
                                               <<"ZERO", "R", "G", "ZERO">>)
                  [] result.type = "Normal" ->
                       plan(result, "BC5", IdentitySwizzle, result.swizzle)
                  [] OTHER -> [result |-> result, thrown |-> TRUE],
                LAMBDA r :
                    IF r.thrown THEN r
                    ELSE [result |-> [r.result EXCEPT !.compression =
                                         hdr_override(r.result.compression, result.mode)],
                          thrown |-> FALSE])
      [] family = "Uncompressed" ->
           [result |-> [result EXCEPT !.compression = "Uncompressed"], thrown |-> FALSE]

(***************************************************************************)
(* Meshes and mesh groups.                                                 *)
(***************************************************************************)
Position == 0      \* ecast(MeshAttribute::Position)

\* The count with a fault: the size of the array in bytes.
vertex_count_in_bytes(size, stride) == size

\* mesh.positions.size() / mesh.position_stride, and the same of the attributes.
vertex_count(size, stride) == size \div stride

\* The loop of emit_mesh over the attribute slots i..AttributeCount-1.  emit is the
\* EmittedMesh being filled.
RECURSIVE emit_mesh_attributes(_, _, _, _, _, _)
emit_mesh_attributes(st, emit, mesh, position_buffer, attribute_buffer, i) ==
    IF i >= AttributeCount THEN [st |-> st, emit |-> emit, thrown |-> FALSE]
    ELSE IF mesh.attribute_layout[i].format = VK_FORMAT_UNDEFINED
    THEN emit_mesh_attributes(st, emit, mesh, position_buffer, attribute_buffer, i + 1)
    ELSE
    Bind([emit EXCEPT !.attribute_mask = @ + 2 ^ i], LAMBDA masked :
    Bind(IF i = Position
         THEN emit_accessor(st, position_buffer,
                            mesh.attribute_layout[i].format,
                            mesh.attribute_layout[i].offset, mesh.position_stride,
                            vertex_count(Len(mesh.positions), mesh.position_stride))
         ELSE emit_accessor(st, attribute_buffer,
                            mesh.attribute_layout[i].format,
                            mesh.attribute_layout[i].offset, mesh.attribute_stride,
                            vertex_count(Len(mesh.attributes), mesh.attribute_stride)),
         LAMBDA acc :
        IF acc.thrown
        THEN [st |-> st, emit |-> masked, thrown |-> TRUE]
        ELSE
        Bind([masked EXCEPT !.attribute_accessor[i] = acc.ret], LAMBDA next :
        Bind(IF i = Position
             THEN [acc.st EXCEPT !.accessor_cache[acc.ret + 1].aabb = mesh.static_aabb,
                                 !.accessor_cache[acc.ret + 1].use_aabb = TRUE]
             ELSE acc.st,
             LAMBDA st1 :
            emit_mesh_attributes(st1, next, mesh, position_buffer, attribute_buffer,
                                 i + 1)))))

\* RemapState::emit_mesh.  .thrown: emit_accessor threw and the export unwinds.
emit_mesh(st, remapped_index) ==
    LET mesh == At(scene.meshes, At(st.mesh.info, remapped_index))
        index_size == IF mesh.index_type = "UINT16" THEN 2 ELSE 4
        remapped_material == At(st.material.to_index, mesh.material_index)
    IN
    Bind([st EXCEPT !.mesh_cache =
             Resize(@, Max(Len(@), remapped_index + 1), EmittedMesh),
                    !.emit_mesh_calls = Counted(@, remapped_index)], LAMBDA st0 :
    Bind([At(st0.mesh_cache, remapped_index) EXCEPT
             !.material = IF mesh.has_material THEN mesh.material_index ELSE -1],
         LAMBDA emit0 :
    Bind(IF mesh.indices # <<>>
         THEN Bind(emit_buffer(st0, mesh.indices, index_size), LAMBDA ib :
                  emit_accessor(ib.st, ib.ret,
                                IF mesh.index_type = "UINT16" THEN "R16_UINT"
                                                              ELSE "R32_UINT",
                                0, index_size, mesh.count))
         ELSE [st |-> st0, ret |-> -1, thrown |-> FALSE], LAMBDA ia :
    Bind([emit0 EXCEPT !.index_accessor = ia.ret], LAMBDA emit1 :
    Bind(IF mesh.has_material /\ remapped_material \notin ia.st.material_hash
         THEN [emit_material(ia.st, remapped_material) EXCEPT
                  !.material_hash = @ \cup {remapped_material}]
         ELSE ia.st, LAMBDA st2 :
    Bind(IF mesh.positions # <<>>
         THEN emit_buffer(st2, mesh.positions, mesh.position_stride)
         ELSE [st |-> st2, ret |-> 0], LAMBDA pb :
    Bind(IF mesh.attributes # <<>>
         THEN emit_buffer(pb.st, mesh.attributes, mesh.attribute_stride)
         ELSE [st |-> pb.st, ret |-> 0], LAMBDA ab :
    Bind(emit_mesh_attributes(ab.st, [emit1 EXCEPT !.attribute_mask = 0], mesh,
                              pb.ret, ab.ret, 0), LAMBDA r :
        [st |-> [r.st EXCEPT !.mesh_cache[remapped_index + 1] = r.emit],
         thrown |-> r.thrown]))))))))

\* The loop of emit_meshes with a fault: mesh_hash.insert(remapped_index) is missing.
RECURSIVE emit_meshes_loop_without_insert(_, _, _, _)
emit_meshes_loop_without_insert(st, meshes, mesh_group, i) ==
    IF i >= Len(meshes) THEN [st |-> st, mesh_group |-> mesh_group, thrown |-> FALSE]
    ELSE LET remapped_index == At(st.mesh.to_index, At(meshes, i))
         IN
         Bind(IF remapped_index \notin st.mesh_hash
              THEN emit_mesh(st, remapped_index)
              ELSE [st |-> st, thrown |-> FALSE], LAMBDA em :
             IF em.thrown
             THEN [st |-> em.st, mesh_group |-> Append(mesh_group, remapped_index),
                   thrown |-> TRUE]
             ELSE emit_meshes_loop_without_insert(em.st, meshes,
                                                  Append(mesh_group, remapped_index),
                                                  i + 1))

\* The loop of emit_meshes over meshes[i..]: mesh_group is the group built so far (the
\* values fed to emit_hash as well).
RECURSIVE emit_meshes_loop(_, _, _, _)
emit_meshes_loop(st, meshes, mesh_group, i) ==
    IF i >= Len(meshes) THEN [st |-> st, mesh_group |-> mesh_group, thrown |-> FALSE]
    ELSE LET remapped_index == At(st.mesh.to_index, At(meshes, i))
         IN
         Bind(IF remapped_index \notin st.mesh_hash
              THEN emit_mesh(st, remapped_index)
              ELSE [st |-> st, thrown |-> FALSE], LAMBDA em :
             IF em.thrown
             THEN [st |-> em.st, mesh_group |-> Append(mesh_group, remapped_index),
                   thrown |-> TRUE]
             ELSE
             Bind([em.st EXCEPT !.mesh_hash = @ \cup {remapped_index}], LAMBDA st1 :
                 emit_meshes_loop(st1, meshes, Append(mesh_group, remapped_index),
                                  i + 1)))

\* emit_meshes with a fault: the indices of the node's list are fed to emit_hash, not the
\* canonical ones.
emit_meshes_raw_indices(st, meshes) ==
    Bind(emit_meshes_loop(st, meshes, <<>>, 0), LAMBDA loop :
        LET h == <<"mesh_group", meshes>>
        IN  IF loop.thrown THEN [st |-> loop.st, ret |-> 0, thrown |-> TRUE]
            ELSE IF ~Has(loop.st.mesh_group_hash, h)
            THEN LET index == Len(loop.st.mesh_group_cache)
                 IN [st |-> [loop.st EXCEPT
                         !.mesh_group_cache = Append(@, loop.mesh_group),
                         !.mesh_group_hash = Put(@, h, index)],
                     ret |-> index, thrown |-> FALSE]
            ELSE [st |-> loop.st, ret |-> loop.st.mesh_group_hash[h], thrown |-> FALSE])

\* RemapState::emit_meshes
emit_meshes(st, meshes) ==
    Bind(emit_meshes_loop(st, meshes, <<>>, 0), LAMBDA loop :
        LET h == <<"mesh_group", loop.mesh_group>>
        IN  IF loop.thrown THEN [st |-> loop.st, ret |-> 0, thrown |-> TRUE]
            ELSE IF ~Has(loop.st.mesh_group_hash, h)
            THEN LET index == Len(loop.st.mesh_group_cache)
                 IN [st |-> [loop.st EXCEPT
                         !.mesh_group_cache = Append(@, loop.mesh_group),
                         !.mesh_group_hash = Put(@, h, index)],
                     ret |-> index, thrown |-> FALSE]
            ELSE [st |-> loop.st, ret |-> loop.st.mesh_group_hash[h], thrown |-> FALSE])

(***************************************************************************)
(* The inputs: materials, meshes, options.  Floats are named values.       *)
(***************************************************************************)
Texture(path, swizzle) == [path |-> path, swizzle |-> swizzle]

NoTexture == Texture("", IdentitySwizzle)

MaterialInfo(base_color, normal, occlusion, metallic_roughness, emissive, sampler, uniform_base_color, pipeline) ==
    [base_color |-> base_color, normal |-> normal, occlusion |-> occlusion,
     metallic_roughness |-> metallic_roughness, emissive |-> emissive,
     sampler |-> sampler,
     uniform_base_color |-> uniform_base_color, uniform_emissive_color |-> "zero",
     uniform_metallic |-> "one", uniform_roughness |-> "one",
     lod_bias |-> "zero", normal_scale |-> "one",
     pipeline |-> pipeline, two_sided |-> FALSE]

\* No texture, a red base colour.
PlainMaterial ==
    MaterialInfo(NoTexture, NoTexture, NoTexture, NoTexture, NoTexture,
                 "TrilinearWrap", "red", "Opaque")

\* All five textures; occlusion and metallic-roughness are packed in one file and the
\* emissive texture is the base colour file.
TexturedMaterial ==
    MaterialInfo(Texture("a.png", IdentitySwizzle), Texture("n.png", IdentitySwizzle),
                 Texture("o.png", IdentitySwizzle), Texture("o.png", IdentitySwizzle),
                 Texture("a.png", IdentitySwizzle),
                 "TrilinearWrap", "one", "Opaque")

\* The textures and uniforms of TexturedMaterial with another sampler and swizzle.
SwizzledMaterial ==
    [TexturedMaterial EXCEPT !.base_color = Texture("a.png", <<"B", "G", "R", "A">>),
                             !.sampler = "NearestClamp"]

\* An alpha blended base colour texture.
BlendedMaterial ==
    MaterialInfo(Texture("a.png", IdentitySwizzle), NoTexture, NoTexture, NoTexture,
                 NoTexture, "TrilinearWrap", "one", "AlphaBlend")

Undefined == [format |-> VK_FORMAT_UNDEFINED, offset |-> 0]

\* An attribute layout: the Position slot, the slot after it, the others undefined.
Layout(position, uv) ==
    [i \in 0..(AttributeCount - 1) |->
        IF i = Position THEN position ELSE IF i = 1 THEN uv ELSE Undefined]

Bytes(n, first) == [i \in 1..n |-> first + i]

\* Two vertices of one float each, two 16-bit indices.
BaseMesh ==
    [topology |-> "TRIANGLE_LIST", index_type |-> "UINT16",
     position_stride |-> 4, attribute_stride |-> 0,
     attribute_layout |-> Layout([format |-> "R32_SFLOAT", offset |-> 0], Undefined),
     positions |-> Bytes(8, 0), attributes |-> <<>>, indices |-> Bytes(4, 100),
     count |-> 2, static_aabb |-> <<1, 2>>,
     has_material |-> FALSE, material_index |-> 0]

WithMaterial(mesh, material_index) ==
    [mesh EXCEPT !.has_material = TRUE, !.material_index = material_index]

\* BaseMesh with one fingerprinted field changed, for each such field.
MeshVariants ==
    {[BaseMesh EXCEPT !.topology = "TRIANGLE_STRIP"],
     [BaseMesh EXCEPT !.index_type = "UINT32"],
     [BaseMesh EXCEPT !.position_stride = 8],
     [BaseMesh EXCEPT !.attribute_stride = 4],
     [BaseMesh EXCEPT !.attribute_layout =
         Layout([format |-> "R32_SFLOAT", offset |-> 4], Undefined)],
     [BaseMesh EXCEPT !.static_aabb = <<1, 3>>],
     [BaseMesh EXCEPT !.positions = Bytes(8, 1)],
     [BaseMesh EXCEPT !.indices = Bytes(4, 101)],
     [BaseMesh EXCEPT !.attributes = Bytes(4, 0)],
     [BaseMesh EXCEPT !.count = 1]}

\* BaseMesh with other positions and another box.
OtherMesh == [BaseMesh EXCEPT !.positions = Bytes(8, 1), !.static_aabb = <<1, 3>>]

Scene(materials, meshes) == [materials |-> materials, meshes |-> meshes]

\* A file system in which no image file is read.
NoFiles == <<>>

\* The ThreadGroup before a task is created.
NoTasks == <<>>

\* The Document before an image is written to it; ret is "none" until
\* export_scene_to_glb has evaluated a return statement.
NoDocument == [images |-> <<>>, ret |-> "none"]

\* A file system without modification times on which nothing was written.
NoDisk == [source_modified |-> <<>>, target_modified |-> <<>>, written |-> {}, glb |-> "none"]

\* scene is a scene with materials from M and, for n materials, meshes from meshes[n].
IsScene(M, meshes) ==
    \E materials \in SeqUpTo(M, MaxMaterials) :
        \E ms \in SeqUpTo(meshes[Len(materials)], MaxMeshes) :
            scene = Scene(materials, ms)

MaterialRefs(n) == {WithMaterial(BaseMesh, m) : m \in 0..(n - 1)}

\* The meshes that differ in their material only.
RefMeshes(n) == {BaseMesh, [BaseMesh EXCEPT !.material_index = 1]} \cup MaterialRefs(n)

\* The meshes that differ in one fingerprinted field.
FieldMeshes(n) == {BaseMesh} \cup MeshVariants \cup MaterialRefs(n)

\* The scenes of the filter passes: those whose materials vary and whose meshes differ
\* in their material, and those of one material whose meshes differ in one field.
IsFilterScene ==
    \/ IsScene({TexturedMaterial, SwizzledMaterial, BlendedMaterial},
               [n \in 0..MaxMaterials |-> RefMeshes(n)])
    \/ IsScene({TexturedMaterial}, [n \in 0..MaxMaterials |-> FieldMeshes(n)])

\* The meshes of a scene the exporter walks.
WalkMeshes(n) == {BaseMesh} \cup MaterialRefs(n)

IsWalkScene ==
    IsScene({PlainMaterial, TexturedMaterial}, [n \in 0..MaxMaterials |-> WalkMeshes(n)])

NoEnvironment ==
    [cube |-> "", reflection |-> "", irradiance |-> "", intensity |-> "one",
     fog_color |-> "black", fog_falloff |-> "one",
     compression |-> "BC", texcomp_quality |-> 3]

Environments ==
    {NoEnvironment,
     [NoEnvironment EXCEPT !.cube = "sky.hdr", !.irradiance = "sky.hdr"],
     [NoEnvironment EXCEPT !.reflection = "sky.hdr"]}

ExportOptions(environment) ==
    [compression |-> "ASTC", texcomp_quality |-> 3, threads |-> 0,
     environment |-> environment]

(***************************************************************************)
(* export_scene_to_glb, up to the end of the node walk.  The materials,    *)
(* the meshes and the options are fixed when the export starts; the mesh   *)
(* list of a node is read when the walk reaches the node.                  *)
(***************************************************************************)
\* call: the last emit call made from outside RemapState, its arguments and its outcome.
NoCall == [op |-> "none", args |-> <<>>, ret |-> -1, thrown |-> FALSE, n |-> 0]

\* The RemapState is constructed, nothing is filtered yet.
Begin ==
    /\ workers = NoTasks
    /\ doc = NoDocument
    /\ disk = NoDisk
    /\ files = NoFiles
    /\ state = RemapState
    /\ pc = "filter_material"
    /\ nodes = 0
    /\ call = NoCall

Start == options \in {ExportOptions(e) : e \in Environments} /\ Begin

Init == IsWalkScene /\ Start

\* state.filter_input(state.material, scene.materials)
FilterMaterials ==
    /\ pc = "filter_material"
    /\ state' = filter_materials(state, scene.materials, 0)
    /\ pc' = "filter_mesh"
    /\ UNCHANGED <<workers, doc, disk, files, scene, options, nodes, call>>

\* The export with a fault: the materials are filtered once more after the meshes.
FilterMeshesThenMaterials ==
    /\ pc = "filter_mesh"
    /\ state' = filter_materials(filter_meshes(state, scene.meshes, 0), scene.materials, 0)
    /\ pc' = "environment"
    /\ UNCHANGED <<workers, doc, disk, files, scene, options, nodes, call>>

\* state.filter_input(state.mesh, scene.meshes)
FilterMeshesStep ==
    /\ pc = "filter_mesh"
    /\ state' = filter_meshes(state, scene.meshes, 0)
    /\ pc' = "environment"
    /\ UNCHANGED <<workers, doc, disk, files, scene, options, nodes, call>>

\* if (!options.environment.cube.empty()) state.emit_environment(...)
Environment ==
    /\ pc = "environment"
    /\ state' = IF options.environment.cube # ""
                THEN emit_environment(state, options.environment.cube,
                                      options.environment.reflection,
                                      options.environment.irradiance,
                                      options.environment.intensity,
                                      options.environment.fog_color,
                                      options.environment.fog_falloff,
                                      options.environment.compression,
                                      options.environment.texcomp_quality)
                ELSE state
    /\ pc' = "nodes"
    /\ UNCHANGED <<workers, doc, disk, files, scene, options, nodes, call>>

\* The mesh lists a node of the walked scene may have: none, one mesh, all meshes.
NodeMeshes ==
    {<<>>} \cup {<<i>> : i \in 0..(Len(scene.meshes) - 1)}
           \cup {[k \in 1..Len(scene.meshes) |-> k - 1]}

\* One iteration of "for (auto &node : scene.nodes)": the node's "mesh" member is the
\* result of emit_meshes when the node has meshes.
WalkNode ==
    /\ pc = "nodes"
    /\ nodes < MaxNodes
    /\ nodes' = nodes + 1
    /\ \E meshes \in NodeMeshes :
          LET r == emit_meshes(state, meshes)
          IN  IF meshes # <<>>
              THEN /\ state' = r.st
                   /\ call' = [op |-> "emit_meshes", args |-> <<meshes>>, ret |-> r.ret,
                               thrown |-> r.thrown, n |-> 0]
                   /\ pc' = IF r.thrown THEN "thrown" ELSE pc
              ELSE UNCHANGED <<state, call, pc>>
    /\ UNCHANGED <<workers, doc, disk, files, scene, options>>

\* The node loop ends: scene.nodes had that many elements.
EndOfNodes ==
    /\ pc = "nodes"
    /\ pc' = "walked"
    /\ UNCHANGED <<workers, doc, disk, files, scene, options, state, nodes, call>>

Next == FilterMaterials \/ FilterMeshesStep \/ Environment \/ WalkNode \/ EndOfNodes

Spec == Init /\ [][Next]_vars

(***************************************************************************)
(* The two filter passes alone, over meshes that differ in every           *)
(* fingerprinted field.                                                    *)
(***************************************************************************)
InitFilter == IsFilterScene /\ Start

NextFilter == FilterMaterials \/ FilterMeshesStep

SpecFilter == InitFilter /\ [][NextFilter]_vars

(***************************************************************************)
(* The emit functions called one at a time on the RemapState of a filtered *)
(* scene, MaxCalls calls at most.                                          *)
(***************************************************************************)
CacheScene == Scene(<<TexturedMaterial>>, <<BaseMesh, OtherMesh, BaseMesh>>)

InitCache ==
    /\ workers = NoTasks
    /\ doc = NoDocument
    /\ disk = NoDisk
    /\ files = NoFiles
    /\ scene = CacheScene
    /\ options = ExportOptions(NoEnvironment)
    /\ state = filter_meshes(filter_materials(RemapState, scene.materials, 0),
                             scene.meshes, 0)
    /\ pc = "calls"
    /\ nodes = 0
    /\ call = NoCall

\* A call that returned: the state and the returned index are the operator's.
Returned(op, args, r) ==
    /\ state' = r.st
    /\ call' = [op |-> op, args |-> args, ret |-> r.ret, thrown |-> FALSE, n |-> call.n + 1]
    /\ UNCHANGED <<workers, doc, disk, files, scene, options, pc, nodes>>

\* A call that threw: nothing is returned.
Threw(op, args, r) ==
    /\ state' = r.st
    /\ call' = [op |-> op, args |-> args, ret |-> -1, thrown |-> TRUE, n |-> call.n + 1]
    /\ UNCHANGED <<workers, doc, disk, files, scene, options, pc, nodes>>

CanCall == pc = "calls" /\ call.n < MaxCalls

BufferArgs == {<<Bytes(4, 100), 2>>, <<Bytes(4, 100), 4>>, <<Bytes(3, 0), 4>>, <<<<>>, 4>>}

CallEmitBuffer ==
    /\ CanCall
    /\ \E a \in BufferArgs : Returned("emit_buffer", a, emit_buffer(state, a[1], a[2]))

AccessorArgs == {<<0, "R32_SFLOAT", 0, 4, 2>>, <<0, "R16_UINT", 0, 2, 2>>,
                 <<1, "R32_SFLOAT", 0, 4, 2>>, <<0, "R64_SFLOAT", 0, 8, 1>>}

CallEmitAccessor ==
    /\ CanCall
    /\ \E a \in AccessorArgs :
          LET r == emit_accessor(state, a[1], a[2], a[3], a[4], a[5])
          IN  IF r.thrown THEN Threw("emit_accessor", a, r)
              ELSE Returned("emit_accessor", a, r)

CallEmitSampler ==
    /\ CanCall
    /\ \E sampler \in {"LinearWrap", "NearestClamp"} :
          Returned("emit_sampler", <<sampler>>, emit_sampler(state, sampler))

ImageArgs == {<<Texture("a.png", IdentitySwizzle), "BaseColor", "ASTC", 3, "sRGB">>,
              <<Texture("a.png", <<"B", "G", "R", "A">>),
                "BaseColor", "ASTC", 3, "sRGB">>,
              <<Texture("n.png", IdentitySwizzle), "Normal", "ASTC", 3, "RGB">>}

CallEmitImage ==
    /\ CanCall
    /\ \E a \in ImageArgs :
          Returned("emit_image", a, emit_image(state, a[1], a[2], a[3], a[4], a[5]))

TextureArgs == {<<Texture("a.png", IdentitySwizzle), "LinearWrap", "BaseColor", "ASTC", 3, "sRGB">>,
                <<Texture("a.png", IdentitySwizzle), "NearestClamp", "BaseColor", "ASTC", 3, "sRGB">>,
                <<Texture("n.png", IdentitySwizzle), "LinearWrap", "Normal", "ASTC", 3, "RGB">>}

CallEmitTexture ==
    /\ CanCall
    /\ \E a \in TextureArgs :
          Returned("emit_texture", a,
                   emit_texture(state, a[1], a[2], a[3], a[4], a[5], a[6]))

CallEmitMeshes ==
    /\ CanCall
    /\ \E meshes \in {<<0>>, <<2>>, <<1>>, <<0, 1>>} :
          LET r == emit_meshes(state, meshes)
          IN  IF r.thrown THEN Threw("emit_meshes", <<meshes>>, r)
              ELSE Returned("emit_meshes", <<meshes>>, r)

NextCache ==
    \/ CallEmitBuffer
    \/ CallEmitAccessor
    \/ CallEmitSampler
    \/ CallEmitImage
    \/ CallEmitTexture
    \/ CallEmitMeshes

SpecCache == InitCache /\ [][NextCache]_vars

(***************************************************************************)
(* emit_image called with requests that differ from one another in one     *)
(* argument, MaxCalls calls at most.                                       *)
(***************************************************************************)
\* A request, the same with another swizzle, and the same with another path, role,
\* family, quality and mode in turn.
ImageRequests ==
    {<<Texture("a.png", IdentitySwizzle), "BaseColor", "ASTC", 3, "sRGB">>,
     <<Texture("a.png", <<"B", "G", "R", "A">>), "BaseColor", "ASTC", 3, "sRGB">>,
     <<Texture("b.png", IdentitySwizzle), "BaseColor", "ASTC", 3, "sRGB">>,
     <<Texture("a.png", IdentitySwizzle), "Emissive", "ASTC", 3, "sRGB">>,
     <<Texture("a.png", IdentitySwizzle), "BaseColor", "BC", 3, "sRGB">>,
     <<Texture("a.png", IdentitySwizzle), "BaseColor", "ASTC", 4, "sRGB">>,
     <<Texture("a.png", IdentitySwizzle), "BaseColor", "ASTC", 3, "sRGBA">>}

CallEmitImageRequest ==
    /\ CanCall
    /\ \E a \in ImageRequests :
          Returned("emit_image", a, emit_image(state, a[1], a[2], a[3], a[4], a[5]))

SpecImage == InitCache /\ [][CallEmitImageRequest]_vars

(***************************************************************************)
(* The format tables applied to the vertex formats, MaxCalls calls at      *)
(* most.  A format is given by its channels, the bits of a channel and     *)
(* its numeric type; its VkFormat is the name made of them.                *)
(***************************************************************************)
ChannelBits(channels, bits) ==
    CASE channels = 1 -> "R" \o ToString(bits)
      [] channels = 2 -> "R" \o ToString(bits) \o "G" \o ToString(bits)
      [] channels = 3 -> "R" \o ToString(bits) \o "G" \o ToString(bits)
                             \o "B" \o ToString(bits)
      [] channels = 4 -> "R" \o ToString(bits) \o "G" \o ToString(bits)
                             \o "B" \o ToString(bits) \o "A" \o ToString(bits)

\* VK_FORMAT_R8G8_UNORM is VkFormat([channels |-> 2, bits |-> 8, numeric |-> "UNORM"]).
VkFormat(f) == ChannelBits(f.channels, f.bits) \o "_" \o f.numeric

\* The 8, 16 and 32 bit formats of one to four channels: the 44 formats of the tables
\* and the 16 bit floats, which the tables do not have.
VkFormats ==
    {f \in [channels : 1..4, bits : {8, 16, 32},
            numeric : {"UNORM", "SNORM", "UINT", "SINT", "SFLOAT"}] :
        \/ f.bits = 8 /\ f.numeric # "SFLOAT"
        \/ f.bits = 16
        \/ f.bits = 32 /\ f.numeric \in {"UINT", "SINT", "SFLOAT"}}

InitFormat ==
    /\ workers = NoTasks
    /\ doc = NoDocument
    /\ disk = NoDisk
    /\ files = NoFiles
    /\ scene = Scene(<<>>, <<>>)
    /\ options = ExportOptions(NoEnvironment)
    /\ state = RemapState
    /\ pc = "calls"
    /\ nodes = 0
    /\ call = NoCall

\* r is the value "throw", whatever the type of what the function returns.
IsThrow(r) == ToString(r) = ToString("throw")

\* A call of a function that reads and writes no RemapState: r is what it returns, or
\* "throw".
Applied(op, args, r) ==
    /\ call' = [op |-> op, args |-> args, ret |-> r, thrown |-> IsThrow(r),
                n |-> call.n + 1]
    /\ UNCHANGED <<workers, doc, disk, files, scene, options, state, pc, nodes>>

CallGetAccessorComponent ==
    /\ CanCall
    /\ \E f \in VkFormats :
          Applied("get_accessor_component", <<f>>, get_accessor_component(VkFormat(f)))

CallGetAccessorType ==
    /\ CanCall
    /\ \E f \in VkFormats :
          Applied("get_accessor_type", <<f>>, get_accessor_type(VkFormat(f)))

NextFormat == CallGetAccessorComponent \/ CallGetAccessorType

SpecFormat == InitFormat /\ [][NextFormat]_vars

(***************************************************************************)
(* The analysis of the one image of an export: the image record that       *)
(* emit_image made, the AnalysisResult analyze_image attaches to it, and   *)
(* the task that loads the file and deduces the compression.               *)
(***************************************************************************)
MaxPixels == 2         \* texels of an image

\* Texels whose G and B are 0, 255 or between, with an R and an A of their own.
Texels == {<<10, g, b, 20>> : g, b \in {0, 100, 255}}

GliTexture(format, layers, faces, pixels) ==
    [format |-> format, layers |-> layers, faces |-> faces, pixels |-> pixels]

\* The 8-bit RGBA images of one layer and one face.
FlatTextures ==
    {GliTexture("RGBA8_UNORM_PACK8", 1, 1, pixels) : pixels \in SeqUpTo(Texels, MaxPixels)}

\* Images of another format, of two layers and of six faces, and the empty texture.
OtherTextures ==
    {GliTexture(format, shape[1], shape[2], pixels) :
        format \in {"RGBA8_SRGB_PACK8", "RGBA16_SFLOAT_PACK16"},
        shape \in {<<1, 1>>, <<2, 1>>, <<1, 6>>},
        pixels \in {<<<<10, 100, 255, 20>>>>, <<<<10, 0, 100, 20>>>>}}
    \cup {GliTexture("RGBA8_UNORM_PACK8", shape[1], shape[2], <<<<10, 100, 255, 20>>>>) :
             shape \in {<<2, 1>>, <<1, 6>>}}
    \cup {EmptyTexture}

Roles == {"BaseColor", "Normal", "MetallicRoughness", "Occlusion", "Emissive"}

Families == {"Uncompressed", "BC", "ASTC"}

\* The file, the swizzle of the texture reference, the role, the family and the mode of
\* the image: every flat image in every role, family and mode with the identity swizzle;
\* the other images likewise, and with a permuting swizzle and one that has a constant;
\* and a role outside the five.
IsAnalysisInput(image, swizzle, type, family, mode) ==
    /\ family \in Families
    /\ mode \in {"RGB", "HDR"}
    /\ \/ /\ image \in FlatTextures \cup OtherTextures
          /\ swizzle = IdentitySwizzle
          /\ type \in Roles
       \/ /\ image \in OtherTextures
          /\ swizzle \in {<<"B", "G", "R", "A">>, <<"R", "G", "B", "ONE">>}
          /\ type \in {"BaseColor", "MetallicRoughness"}
       \/ /\ image \in OtherTextures
          /\ swizzle = IdentitySwizzle
          /\ type = "Count"

InitAnalysis ==
    /\ \E image \in FlatTextures \cup OtherTextures :
       \E swizzle \in {IdentitySwizzle, <<"B", "G", "R", "A">>, <<"R", "G", "B", "ONE">>} :
       \E type \in Roles \cup {"Count"}, family \in Families, mode \in {"RGB", "HDR"} :
          /\ IsAnalysisInput(image, swizzle, type, family, mode)
          /\ files = [path \in {"a.png"} |-> image]
          /\ state = emit_image(RemapState, Texture("a.png", swizzle), type, family, 3,
                                mode).st
    /\ workers = NoTasks
    /\ doc = NoDocument
    /\ disk = NoDisk
    /\ scene = Scene(<<>>, <<>>)
    /\ options = ExportOptions(NoEnvironment)
    /\ pc = "images"
    /\ nodes = 0
    /\ call = NoCall

\* image.loaded_image = analyze_image(...): the result is made and its task enqueued.
AnalyzeImage ==
    /\ pc = "images"
    /\ state' = [state EXCEPT !.image_cache[1].loaded_image =
                     AnalysisResult(At(state.image_cache, 0).type,
                                    At(state.image_cache, 0).mode)]
    /\ pc' = "task"
    /\ UNCHANGED <<workers, doc, disk, files, scene, options, nodes, call>>

\* The task: result->load_image(src, swizzle); when it returns false the task logs and
\* returns.
LoadImage ==
    /\ pc = "task"
    /\ LET image == At(state.image_cache, 0)
           r == load_image(image.loaded_image, image.source_path, image.swizzle)
       IN  /\ state' = [state EXCEPT !.image_cache[1].loaded_image = r.result]
           /\ pc' = IF r.thrown THEN "task_thrown"
                    ELSE IF r.ret THEN "loaded" ELSE "load_failed"
    /\ UNCHANGED <<workers, doc, disk, files, scene, options, nodes, call>>

\* The task: result->deduce_compression(family).  call keeps the AnalysisResult the
\* function started with, the family, and in .ret the mode
\* deduce_metallic_roughness_mode returned to it, "none" when it was not called.
DeduceCompression ==
    /\ pc = "loaded"
    /\ LET image == At(state.image_cache, 0)
           r == deduce_compression(image.loaded_image, image.compression)
       IN  /\ state' = [state EXCEPT !.image_cache[1].loaded_image = r.result]
           /\ pc' = IF r.thrown THEN "task_thrown" ELSE "analyzed"
           /\ call' = [op |-> "deduce_compression",
                       args |-> <<image.loaded_image, image.compression>>,
                       ret |-> IF /\ image.compression \in {"ASTC", "BC"}
                                  /\ image.loaded_image.type = "MetallicRoughness"
                               THEN deduce_metallic_roughness_mode(image.loaded_image)
                               ELSE "none",
                       thrown |-> r.thrown, n |-> 0]
    /\ UNCHANGED <<workers, doc, disk, files, scene, options, nodes>>

NextAnalysis == AnalyzeImage \/ LoadImage \/ DeduceCompression

SpecAnalysis == InitAnalysis /\ [][NextAnalysis]_vars

(***************************************************************************)
(* export_scene_to_glb from the image analysis to its return: the analysis *)
(* tasks and their join, the "images" array, the tasks compress_image      *)
(* creates, the GLB file, and the destruction of the ThreadGroup.  The     *)
(* ThreadGroup is the collaborator the exporter is written against: a task *)
(* may run once it is created and its dependency is done, wait() returns   *)
(* when the tasks of the group are done, and the destructor joins.         *)
(***************************************************************************)
MaxImages == 2

\* A task of the ThreadGroup: what it does, for which image of image_cache, and the
\* task it depends on (-1: none).
Task(kind, image, dependency) ==
    [kind |-> kind, image |-> image, dependency |-> dependency, status |-> "pending"]

TaskIds == 0..(Len(workers) - 1)

AllDone(kind) ==
    \A t \in TaskIds : At(workers, t).kind \in kind => At(workers, t).status = "done"

\* swiz_to_index of export_scene_to_glb
swiz_to_index(s, identity) ==
    CASE s = "R" -> 0
      [] s = "G" -> 1
      [] s = "B" -> 2
      [] s = "A" -> 3
      [] s = "ONE" -> 4
      [] s = "ZERO" -> 5
      [] OTHER -> identity

\* The record of an image in "images": extras is the set of the members of the extras
\* object, empty when the object is not added.
image_json(image, swiz) ==
    [uri |-> image.target_relpath, mimeType |-> image.target_mime,
     extras |-> IF swiz # IdentitySwizzle
                THEN {<<"swizzle", [c \in 1..4 |-> swiz_to_index(swiz[c], c - 1)]>>}
                ELSE {}]

\* compress_image: both stat calls succeed and the source is older than the target.
is_already_compressed(dk, src_path, target_path) ==
    /\ Has(dk.source_modified, src_path)
    /\ Has(dk.target_modified, target_path)
    /\ dk.source_modified[src_path] < dk.target_modified[target_path]

\* compress_image with a fault: the encode task is created without its dependency.
compress_image_unordered(tasks, dk, target_path, result, image) ==
    IF is_already_compressed(dk, result.src_path, target_path) THEN tasks
    ELSE Append(Append(tasks, Task("mipgen", image, -1)),
                Task(IF result.compression # "Uncompressed" THEN "encode" ELSE "save",
                     image, -1))

\* compress_image: the tasks of the ThreadGroup after the call.  The encode task is the
\* one compress_texture creates with mipgen_task as its dependency.
compress_image(tasks, dk, target_path, result, image) ==
    IF is_already_compressed(dk, result.src_path, target_path) THEN tasks
    ELSE LET mipgen_task == Len(tasks)
         IN  Append(Append(tasks, Task("mipgen", image, -1)),
                    Task(IF result.compression # "Uncompressed" THEN "encode" ELSE "save",
                         image, mipgen_task))

\* The source file of image k of an export.
SourcePath(k) == ToString(k) \o ".png"

\* An image of an export: the texture load_texture_from_file gives for its source, the
\* swizzle and the role the material refers to it with, and the modification times of
\* the source and of the target, 0 where stat fails.
ImageCase(texture, swizzle, type, source_modified, target_modified) ==
    [texture |-> texture, swizzle |-> swizzle, type |-> type,
     source_modified |-> source_modified, target_modified |-> target_modified]

\* A normal map never encoded; a base colour with a swizzle, encoded after its source
\* changed; a metallic-roughness map with G = 0, encoded at the time of its source; a
\* missing file; a file that cannot be decoded, encoded before it changed.
ImageCases ==
    {ImageCase(GliTexture("RGBA8_UNORM_PACK8", 1, 1, <<<<10, 100, 255, 20>>>>),
               IdentitySwizzle, "Normal", 2, 0),
     ImageCase(GliTexture("RGBA8_UNORM_PACK8", 1, 1, <<<<10, 100, 255, 20>>>>),
               <<"B", "G", "R", "A">>, "BaseColor", 2, 3),
     ImageCase(GliTexture("RGBA8_UNORM_PACK8", 1, 1, <<<<10, 0, 100, 20>>>>),
               IdentitySwizzle, "MetallicRoughness", 2, 2),
     ImageCase(EmptyTexture, IdentitySwizzle, "BaseColor", 0, 0),
     ImageCase(EmptyTexture, IdentitySwizzle, "Normal", 2, 1)}

\* emit_image for the images k.. of an export, as the material walk calls it.
RECURSIVE emit_images(_, _, _, _)
emit_images(st, cases, k, family) ==
    IF k >= Len(cases) THEN st
    ELSE emit_images(emit_image(st, Texture(SourcePath(k), At(cases, k).swizzle),
                                At(cases, k).type, family, 3, "RGB").st,
                     cases, k + 1, family)

\* The file system of an export: the texture behind every source path, and the
\* modification times stat gives, of the sources and of the targets that exist.
ExportFiles(cases) ==
    [path \in {SourcePath(k) : k \in 0..(Len(cases) - 1)} |->
        At(cases, CHOOSE k \in 0..(Len(cases) - 1) : SourcePath(k) = path).texture]

ExportDisk(cases, image_cache) ==
    LET K == 0..(Len(cases) - 1)
    IN  [source_modified |->
            [path \in {SourcePath(k) : k \in {j \in K : At(cases, j).source_modified > 0}} |->
                At(cases, CHOOSE k \in K : SourcePath(k) = path).source_modified],
         target_modified |->
            [target \in {At(image_cache, k).target_relpath :
                            k \in {j \in K : At(cases, j).target_modified > 0}} |->
                At(cases, CHOOSE k \in K :
                              At(image_cache, k).target_relpath = target).target_modified],
         written |-> {}, glb |-> "none"]

\* The caches are filled, no task is created and nothing is written to "images".
InitExport ==
    /\ \E n \in 1..MaxImages : \E cases \in [1..n -> ImageCases] :
       \E family \in {"ASTC", "Uncompressed"} :
          /\ files = ExportFiles(cases)
          /\ state = emit_images(RemapState, cases, 0, family)
          /\ disk = ExportDisk(cases, emit_images(RemapState, cases, 0, family).image_cache)
    /\ workers = NoTasks
    /\ doc = NoDocument
    /\ scene = Scene(<<>>, <<>>)
    /\ options = ExportOptions(NoEnvironment)
    /\ pc = "images"
    /\ nodes = 0
    /\ call = NoCall

Images == 0..(Len(state.image_cache) - 1)

\* One turn of the loop over image_cache: analyze_image makes the AnalysisResult of the
\* next image and enqueues its task in the group.
EnqueueAnalysis ==
    /\ pc = "images"
    /\ Len(workers) < Len(state.image_cache)
    /\ LET i == Len(workers)
       IN  /\ state' = [state EXCEPT !.image_cache[i + 1].loaded_image =
                            AnalysisResult(At(state.image_cache, i).type,
                                           At(state.image_cache, i).mode)]
           /\ workers' = Append(workers, Task("analysis", i, -1))
    /\ UNCHANGED <<doc, disk, files, scene, options, pc, nodes, call>>

\* The wait with a fault: it returns while tasks of the group are pending or at work.
WaitForAnalysis_without_join ==
    /\ pc = "images"
    /\ Len(workers) = Len(state.image_cache)
    /\ pc' = "json"
    /\ UNCHANGED <<workers, doc, disk, files, scene, options, state, nodes, call>>

\* group->wait() returns: every task of the group is done.
WaitForAnalysis ==
    /\ pc = "images"
    /\ Len(workers) = Len(state.image_cache)
    /\ AllDone({"analysis"})
    /\ pc' = "json"
    /\ UNCHANGED <<workers, doc, disk, files, scene, options, state, nodes, call>>

\* An analysis task with a fault: it loads into the AnalysisResult of the first image.
TaskLoadImage_into_first(t) ==
    /\ At(workers, t).kind = "analysis"
    /\ At(workers, t).status = "pending"
    /\ LET image == At(state.image_cache, At(workers, t).image)
           r == load_image(At(state.image_cache, 0).loaded_image, image.source_path,
                           image.swizzle)
       IN  /\ state' = [state EXCEPT !.image_cache[1].loaded_image = r.result]
           /\ workers' = [workers EXCEPT ![t + 1].status =
                             IF r.thrown THEN "thrown"
                             ELSE IF r.ret THEN "running" ELSE "done"]
    /\ UNCHANGED <<doc, disk, files, scene, options, pc, nodes, call>>

\* The task of analyze_image starts: result->load_image(src, swizzle).  When it returns
\* false the task logs and is done.
TaskLoadImage(t) ==
    /\ At(workers, t).kind = "analysis"
    /\ At(workers, t).status = "pending"
    /\ LET i == At(workers, t).image
           image == At(state.image_cache, i)
           r == load_image(image.loaded_image, image.source_path, image.swizzle)
       IN  /\ state' = [state EXCEPT !.image_cache[i + 1].loaded_image = r.result]
           /\ workers' = [workers EXCEPT ![t + 1].status =
                             IF r.thrown THEN "thrown"
                             ELSE IF r.ret THEN "running" ELSE "done"]
    /\ UNCHANGED <<doc, disk, files, scene, options, pc, nodes, call>>

\* The task of analyze_image goes on: result->deduce_compression(family).
TaskDeduceCompression(t) ==
    /\ At(workers, t).kind = "analysis"
    /\ At(workers, t).status = "running"
    /\ LET i == At(workers, t).image
           image == At(state.image_cache, i)
           r == deduce_compression(image.loaded_image, image.compression)
       IN  /\ state' = [state EXCEPT !.image_cache[i + 1].loaded_image = r.result]
           /\ workers' = [workers EXCEPT ![t + 1].status =
                             IF r.thrown THEN "thrown" ELSE "done"]
    /\ UNCHANGED <<doc, disk, files, scene, options, pc, nodes, call>>

\* The swizzle of an image record with a fault: the swizzle of the material.
emitted_swizzle_of_material(image) == image.swizzle

\* auto swiz = image.loaded_image->swizzle;
emitted_swizzle(image) == image.loaded_image.swizzle

\* The AnalysisResult as compress_image reads it.  A result whose image was not loaded
\* has the compression make_shared zeroed, an enumerator the header defines: first
\* stands for it.
Zeroed(result, first) ==
    IF result.compression = "zero" THEN [result EXCEPT !.compression = first] ELSE result

\* One turn of the second loop over image_cache: the record of the next image is pushed
\* to "images" and compress_image is called for it.
EmitImage ==
    /\ pc = "json"
    /\ Len(doc.images) < Len(state.image_cache)
    /\ LET i == Len(doc.images)
           image == At(state.image_cache, i)
       IN  /\ doc' = [doc EXCEPT !.images =
                         Append(@, image_json(image, emitted_swizzle(image)))]
           /\ \E first \in {"Uncompressed", "ASTC6x6"} :
                 workers' = compress_image(workers, disk, image.target_relpath,
                                           Zeroed(image.loaded_image, first), i)
    /\ UNCHANGED <<disk, files, scene, options, state, pc, nodes, call>>

EndOfImages == pc = "json" /\ Len(doc.images) = Len(state.image_cache)

\* The failure to open with a fault: the export goes on to return true.
OpenFails_returning_true ==
    /\ EndOfImages
    /\ doc' = [doc EXCEPT !.ret = TRUE]
    /\ pc' = "return"
    /\ UNCHANGED <<workers, disk, files, scene, options, state, nodes, call>>

\* Filesystem::open fails: return false.
OpenFails ==
    /\ EndOfImages
    /\ doc' = [doc EXCEPT !.ret = FALSE]
    /\ pc' = "return"
    /\ UNCHANGED <<workers, disk, files, scene, options, state, nodes, call>>

\* The file is opened and map_write fails: return false.
MapFails ==
    /\ EndOfImages
    /\ doc' = [doc EXCEPT !.ret = FALSE]
    /\ disk' = [disk EXCEPT !.glb = "opened"]
    /\ pc' = "return"
    /\ UNCHANGED <<workers, files, scene, options, state, nodes, call>>

\* The file is opened and mapped, the header and the two chunks are written: return true.
WriteGlb ==
    /\ EndOfImages
    /\ doc' = [doc EXCEPT !.ret = TRUE]
    /\ disk' = [disk EXCEPT !.glb = "written"]
    /\ pc' = "return"
    /\ UNCHANGED <<workers, files, scene, options, state, nodes, call>>

\* The destructor of workers with a fault: it does not join.
DestroyWorkers_without_join ==
    /\ pc = "return"
    /\ pc' = "returned"
    /\ UNCHANGED <<workers, doc, disk, files, scene, options, state, nodes, call>>

\* The destructor of the ThreadGroup workers, which every return statement runs: it
\* joins the tasks, and export_scene_to_glb has returned.
DestroyWorkers ==
    /\ pc = "return"
    /\ AllDone({"analysis", "mipgen", "encode", "save"})
    /\ pc' = "returned"
    /\ UNCHANGED <<workers, doc, disk, files, scene, options, state, nodes, call>>

\* generate_offline_mipmaps: the texture with its mip chain.
generate_offline_mipmaps(image) == [mipmapped |-> TRUE] @@ image

\* A worker takes a task compress_image created: its dependency is done.
StartTask(t) ==
    /\ At(workers, t).kind \in {"mipgen", "encode", "save"}
    /\ At(workers, t).status = "pending"
    /\ IF At(workers, t).dependency = -1 THEN TRUE
       ELSE At(workers, At(workers, t).dependency).status = "done"
    /\ workers' = [workers EXCEPT ![t + 1].status = "running"]
    /\ UNCHANGED <<doc, disk, files, scene, options, state, pc, nodes, call>>

\* The mipmap task ends: a loaded image of one level has got its mip chain; an empty
\* texture has no level.
FinishMipgen(t) ==
    /\ At(workers, t).kind = "mipgen"
    /\ At(workers, t).status = "running"
    /\ LET i == At(workers, t).image
       IN  state' = [state EXCEPT !.image_cache[i + 1].loaded_image.image =
                        IF @ = EmptyTexture THEN @ ELSE generate_offline_mipmaps(@)]
    /\ workers' = [workers EXCEPT ![t + 1].status = "done"]
    /\ UNCHANGED <<doc, disk, files, scene, options, pc, nodes, call>>

\* The encode or save task ends: the target file of a loaded image is written; what the
\* compressor or save_texture_to_file leaves of an empty texture is open.
FinishEncode(t) ==
    /\ At(workers, t).kind \in {"encode", "save"}
    /\ At(workers, t).status = "running"
    /\ LET image == At(state.image_cache, At(workers, t).image)
       IN  \E saved \in (IF image.loaded_image.image = EmptyTexture
                         THEN {TRUE, FALSE} ELSE {TRUE}) :
              disk' = [disk EXCEPT !.written =
                          IF saved THEN @ \cup {image.target_relpath} ELSE @]
    /\ workers' = [workers EXCEPT ![t + 1].status = "done"]
    /\ UNCHANGED <<doc, files, scene, options, state, pc, nodes, call>>

NextExport ==
    \/ EnqueueAnalysis
    \/ WaitForAnalysis
    \/ \E t \in TaskIds : TaskLoadImage(t)
    \/ \E t \in TaskIds : TaskDeduceCompression(t)
    \/ EmitImage
    \/ OpenFails
    \/ MapFails
    \/ WriteGlb
    \/ \E t \in TaskIds : StartTask(t)
    \/ \E t \in TaskIds : FinishMipgen(t)
    \/ \E t \in TaskIds : FinishEncode(t)
    \/ DestroyWorkers

SpecExport == InitExport /\ [][NextExport]_vars

(***************************************************************************)
(* The export of images of one role that differ in what decides their      *)
(* tasks: whether the source can be loaded and whether the target is up to *)
(* date.                                                                   *)
(***************************************************************************)
\* A normal map never encoded, one that cannot be decoded and was encoded before it
\* changed, and one that is up to date.
TaskCases ==
    {ImageCase(GliTexture("RGBA8_UNORM_PACK8", 1, 1, <<<<10, 100, 255, 20>>>>),
               IdentitySwizzle, "Normal", 2, 0),
     ImageCase(EmptyTexture, IdentitySwizzle, "Normal", 2, 1),
     ImageCase(GliTexture("RGBA8_UNORM_PACK8", 1, 1, <<<<10, 100, 255, 20>>>>),
               IdentitySwizzle, "Normal", 2, 3)}

InitTasks ==
    /\ \E n \in 1..MaxImages : \E cases \in [1..n -> TaskCases] :
       \E family \in {"ASTC", "Uncompressed"} :
          /\ files = ExportFiles(cases)
          /\ state = emit_images(RemapState, cases, 0, family)
          /\ disk = ExportDisk(cases, emit_images(RemapState, cases, 0, family).image_cache)
    /\ workers = NoTasks
    /\ doc = NoDocument
    /\ scene = Scene(<<>>, <<>>)
    /\ options = ExportOptions(NoEnvironment)
    /\ pc = "images"
    /\ nodes = 0
    /\ call = NoCall

SpecTasks == InitTasks /\ [][NextExport]_vars

(***************************************************************************)
(* The GLB container export_scene_to_glb writes.  A size_t is 64 bits wide *)
(* and is kept as four limbs of 16 bits, the low limb first; a uint32_t is *)
(* the two low limbs.  The payloads are not kept, only where and how much  *)
(* is written.                                                             *)
(***************************************************************************)
Limb == 65536

\* The size_t of a number below 2^16.
Size(n) == <<n, 0, 0, 0>>

\* a + b in size_t arithmetic: limb by limb with the carry, the last carry dropped.
RECURSIVE add_limbs(_, _, _, _)
add_limbs(a, b, k, carry) ==
    IF k > Len(a) THEN <<>>
    ELSE <<(a[k] + b[k] + carry) % Limb>>
             \o add_limbs(a, b, k + 1, (a[k] + b[k] + carry) \div Limb)

Plus(a, b) == add_limbs(a, b, 1, 0)

\* a - b in size_t arithmetic.
RECURSIVE sub_limbs(_, _, _, _)
sub_limbs(a, b, k, borrow) ==
    IF k > Len(a) THEN <<>>
    ELSE <<(a[k] - b[k] - borrow + Limb) % Limb>>
             \o sub_limbs(a, b, k + 1, IF a[k] - b[k] - borrow < 0 THEN 1 ELSE 0)

Minus(a, b) == sub_limbs(a, b, 1, 0)

\* a <= b for two size_t.
RECURSIVE less_equal(_, _, _)
less_equal(a, b, k) ==
    IF k = 0 THEN TRUE
    ELSE IF a[k] # b[k] THEN a[k] < b[k]
    ELSE less_equal(a, b, k - 1)

AtMost(a, b) == less_equal(a, b, Len(a))

\* aligned_size: (size + 3) & ~size_t(3)
aligned_size(size) == [Plus(size, Size(3)) EXCEPT ![1] = @ - (@ % 4)]

\* The conversion of a size_t to the uint32_t parameter of write_u32.
u32(size) == <<size[1], size[2]>>

\* A write through mapped: where the file is written from its start, how many bytes,
\* and what: the name of a field with its value, or the name of a payload or a filler.
Write(at, length, what, value) ==
    [at |-> at, length |-> length, what |-> what, value |-> value]

\* buffer.GetLength() and glb_buffer_data.size(): small lengths of every remainder
\* modulo 4, and lengths around 2^32.
Lengths ==
    {Size(n) : n \in 0..6}
        \cup {<<65532, 65535, 0, 0>>, <<65533, 65535, 0, 0>>, <<65535, 65535, 0, 0>>,
              <<0, 0, 1, 0>>, <<2, 0, 1, 0>>}

\* The document is serialised; call.args are the lengths of the JSON text and of the
\* binary blob.
InitGlb ==
    /\ \E json_length \in Lengths, blob_length \in Lengths :
          call = [op |-> "write_glb", args |-> <<json_length, blob_length>>, ret |-> -1,
                  thrown |-> FALSE, n |-> 0]
    /\ disk = [NoDisk EXCEPT !.glb = [size |-> Size(0), mapped |-> Size(0), writes |-> <<>>]]
    /\ workers = NoTasks
    /\ doc = NoDocument
    /\ files = NoFiles
    /\ scene = Scene(<<>>, <<>>)
    /\ options = ExportOptions(NoEnvironment)
    /\ state = RemapState
    /\ pc = "serialized"
    /\ nodes = 0

\* glb_size is computed, the file is opened and map_write(glb_size) gives the mapping.
MapWrite ==
    /\ pc = "serialized"
    /\ disk' = [disk EXCEPT !.glb.size =
                   Plus(Plus(Plus(Plus(Size(12), Size(8)), aligned_size(call.args[1])),
                             Size(8)), aligned_size(call.args[2]))]
    /\ pc' = "mapped"
    /\ UNCHANGED <<workers, doc, files, scene, options, state, nodes, call>>

\* The file after the writes w: mapped is moved past the last of them.
Written(glb, w) ==
    [glb EXCEPT !.writes = @ \o w,
                !.mapped = Plus(w[Len(w)].at, w[Len(w)].length)]

\* "glTF", the version and glb_size as a uint32_t.
WriteHeader ==
    /\ pc = "mapped"
    /\ LET mapped == disk.glb.mapped
       IN  disk' = [disk EXCEPT !.glb = Written(@,
                       <<Write(mapped, Size(4), "glTF", <<>>),
                         Write(Plus(mapped, Size(4)), Size(4), "version", u32(Size(2))),
                         Write(Plus(mapped, Size(8)), Size(4), "total_length",
                               u32(disk.glb.size))>>)]
    /\ pc' = "header"
    /\ UNCHANGED <<workers, doc, files, scene, options, state, nodes, call>>

\* A chunk: its length as a uint32_t, its type, the payload and the filler up to the
\* aligned size.
Chunk(mapped, length, type, payload, filler) ==
    <<Write(mapped, Size(4), "chunk_length", u32(aligned_size(length))),
      Write(Plus(mapped, Size(4)), Size(4), type, <<>>),
      Write(Plus(mapped, Size(8)), length, payload, <<>>),
      Write(Plus(Plus(mapped, Size(8)), length), Minus(aligned_size(length), length),
            "memset", filler)>>

\* The JSON chunk, filled with spaces.
WriteJsonChunk ==
    /\ pc = "header"
    /\ disk' = [disk EXCEPT !.glb = Written(@,
                   Chunk(disk.glb.mapped, call.args[1], "JSON", "json", <<32>>))]
    /\ pc' = "json"
    /\ UNCHANGED <<workers, doc, files, scene, options, state, nodes, call>>

\* The BIN chunk, filled with zeros; the file is unmapped and true is returned.
WriteBinChunk ==
    /\ pc = "json"
    /\ disk' = [disk EXCEPT !.glb = Written(@,
                   Chunk(disk.glb.mapped, call.args[2], "BIN", "bin", <<0>>))]
    /\ doc' = [doc EXCEPT !.ret = TRUE]
    /\ pc' = "returned"
    /\ UNCHANGED <<workers, files, scene, options, state, nodes, call>>

NextGlb == MapWrite \/ WriteHeader \/ WriteJsonChunk \/ WriteBinChunk

SpecGlb == InitGlb /\ [][NextGlb]_vars

(***************************************************************************)
(* The export of scenes without materials whose meshes differ in their     *)
(* geometry.                                                               *)
(***************************************************************************)
\* Two vertices of a position and, 4 bytes into each 8 byte element, one float.
InterleavedMesh ==
    [BaseMesh EXCEPT !.attribute_stride = 8,
                     !.attribute_layout = Layout([format |-> "R32_SFLOAT", offset |-> 0],
                                                 [format |-> "R32_SFLOAT", offset |-> 4]),
                     !.attributes = Bytes(16, 50)]

\* A Position in the layout and no bytes at all.
EmptyMesh ==
    [BaseMesh EXCEPT !.positions = <<>>, !.indices = <<>>, !.count = 0]

\* Two 16-bit indices and a count of three.
MiscountedMesh == [BaseMesh EXCEPT !.count = 3]

\* One vertex of three 32-bit unsigned integers.
IntegerMesh ==
    [BaseMesh EXCEPT !.position_stride = 12,
                     !.attribute_layout =
                         Layout([format |-> "R32G32B32_UINT", offset |-> 0], Undefined),
                     !.positions = Bytes(12, 0),
                     !.indices = <<>>, !.count = 1]

\* A format outside the tables of get_accessor_type.
UnsupportedMesh ==
    [BaseMesh EXCEPT !.position_stride = 8,
                     !.attribute_layout =
                         Layout([format |-> "R64_SFLOAT", offset |-> 0], Undefined)]

\* Attribute bytes that equal the position bytes, with the stride and the layout entry
\* of the positions.
SharedMesh ==
    [BaseMesh EXCEPT !.attribute_stride = 4,
                     !.attribute_layout = Layout([format |-> "R32_SFLOAT", offset |-> 0],
                                                 [format |-> "R32_SFLOAT", offset |-> 0]),
                     !.attributes = Bytes(8, 0)]

Geometries == {BaseMesh, InterleavedMesh, EmptyMesh, MiscountedMesh, IntegerMesh,
               UnsupportedMesh, SharedMesh}

InitMesh ==
    /\ IsScene({}, [n \in {0} |-> Geometries])
    /\ options = ExportOptions(NoEnvironment)
    /\ Begin

SpecMesh == InitMesh /\ [][Next]_vars

(***************************************************************************)
(* emit_texture, emit_material and emit_environment called one at a time   *)
(* on the RemapState of a filtered scene, MaxCalls calls at most.          *)
(***************************************************************************)
TextureScene == Scene(<<TexturedMaterial, BlendedMaterial, PlainMaterial>>, <<>>)

InitTexture ==
    /\ workers = NoTasks
    /\ doc = NoDocument
    /\ disk = NoDisk
    /\ files = NoFiles
    /\ scene = TextureScene
    /\ options = ExportOptions(NoEnvironment)
    /\ state = filter_meshes(filter_materials(RemapState, scene.materials, 0),
                             scene.meshes, 0)
    /\ pc = "calls"
    /\ nodes = 0
    /\ call = NoCall

\* A call of a function that returns nothing.
Done(op, args, st) ==
    /\ state' = st
    /\ call' = [op |-> op, args |-> args, ret |-> -1, thrown |-> FALSE, n |-> call.n + 1]
    /\ UNCHANGED <<workers, doc, disk, files, scene, options, pc, nodes>>

CallEmitMaterial ==
    /\ CanCall
    /\ \E remapped_material \in 0..(Len(state.material.info) - 1) :
          Done("emit_material", <<remapped_material>>,
               emit_material(state, remapped_material))

EnvironmentArgs ==
    {[NoEnvironment EXCEPT !.cube = "sky.hdr", !.irradiance = "sky.hdr"],
     [NoEnvironment EXCEPT !.cube = "sky.hdr", !.reflection = "night.hdr",
                           !.irradiance = "glow.hdr"],
     [NoEnvironment EXCEPT !.reflection = "sky.hdr"]}

CallEmitEnvironment ==
    /\ CanCall
    /\ \E e \in EnvironmentArgs :
          Done("emit_environment", <<e>>,
               emit_environment(state, e.cube, e.reflection, e.irradiance, e.intensity,
                                e.fog_color, e.fog_falloff, e.compression,
                                e.texcomp_quality))

NextTexture == CallEmitTexture \/ CallEmitMaterial \/ CallEmitEnvironment

SpecTexture == InitTexture /\ [][NextTexture]_vars

(***************************************************************************)
(* The calls of emit_buffer that emit_mesh makes, one at a time, MaxCalls  *)
(* calls at most: the index, position and attribute arrays of a mesh, each *)
(* passed when it is not empty.                                            *)
(***************************************************************************)
\* A position array that fills one 16 byte block.
BlockMesh ==
    [BaseMesh EXCEPT !.position_stride = 8, !.positions = Bytes(16, 0)]

BufferMeshes ==
    {BaseMesh, OtherMesh, InterleavedMesh, EmptyMesh, IntegerMesh, SharedMesh, BlockMesh,
     [BaseMesh EXCEPT !.index_type = "UINT32"]}

\* The three calls of emit_buffer in emit_mesh: the array and the stride passed.
MeshBuffers(mesh) ==
    {<<mesh.indices, IF mesh.index_type = "UINT16" THEN 2 ELSE 4>>,
     <<mesh.positions, mesh.position_stride>>,
     <<mesh.attributes, mesh.attribute_stride>>}

\* if (!array.empty()) emit_buffer(array, stride)
CallEmitMeshBuffer ==
    /\ CanCall
    /\ \E mesh \in BufferMeshes :
          \E a \in MeshBuffers(mesh) :
              /\ a[1] # <<>>
              /\ Returned("emit_buffer", a, emit_buffer(state, a[1], a[2]))

SpecBuffer == InitCache /\ [][CallEmitMeshBuffer]_vars

(***************************************************************************)
(* The export of scenes without materials whose meshes differ in their     *)
(* bounding box, in their positions, or in both.                           *)
(***************************************************************************)
\* The positions of BaseMesh in another box.
BoxMesh == [BaseMesh EXCEPT !.static_aabb = <<1, 3>>]

Boxes == {BaseMesh, BoxMesh, OtherMesh, InterleavedMesh}

InitBox ==
    /\ IsScene({}, [n \in {0} |-> Boxes])
    /\ options = ExportOptions(NoEnvironment)
    /\ Begin

SpecBox == InitBox /\ [][Next]_vars

(***************************************************************************)
(* The export of scenes in which meshes of different geometry share a      *)
(* material and in which a material may have no mesh.                      *)
(***************************************************************************)
\* For n materials: one geometry for each material, and a second one for the first.
MaterialMeshes(n) ==
    MaterialRefs(n) \cup {WithMaterial(OtherMesh, m) : m \in 0..(n - 1) \cap {0}}

InitMaterial ==
    /\ IsScene({PlainMaterial, TexturedMaterial},
               [n \in 0..MaxMaterials |-> MaterialMeshes(n)])
    /\ options = ExportOptions(NoEnvironment)
    /\ Begin

SpecMaterial == InitMaterial /\ [][Next]_vars

(***************************************************************************)
(* The export of scenes whose materials agree in their fingerprint and     *)
(* differ in their sampler and swizzles, or differ in their fingerprint    *)
(* and request the same image with different swizzles.                     *)
(***************************************************************************)
\* Another fingerprint than SwizzledMaterial, the same base colour file, another swizzle.
TintedMaterial ==
    [SwizzledMaterial EXCEPT !.base_color = Texture("a.png", <<"G", "G", "G", "A">>),
                             !.uniform_base_color = "red"]

InitFirst ==
    /\ IsScene({TexturedMaterial, SwizzledMaterial, TintedMaterial},
               [n \in 0..MaxMaterials |-> MaterialRefs(n)])
    /\ options = ExportOptions(NoEnvironment)
    /\ Begin

SpecFirst == InitFirst /\ [][Next]_vars

(***************************************************************************)
(* Properties of the filter passes.                                        *)
(***************************************************************************)
Indices(v) == 0..(Len(v) - 1)

MaterialsFiltered == pc # "filter_material"

MeshesFiltered == pc \notin {"filter_material", "filter_mesh"}

MaterialFingerprint ==
    [i \in Indices(scene.materials) |-> hash_MaterialInfo(state, At(scene.materials, i))]

MeshFingerprint ==
    [i \in Indices(scene.meshes) |-> hash_Mesh(state, At(scene.meshes, i))]

\* The remap table of an input whose element i has fingerprint fp[i]: one entry per
\* element, each below the canonical count, onto the canonical indices, handed out in
\* the order of first occurrence.
RemapTable(remap, input, fp) ==
    /\ Len(remap.to_index) = Len(input)
    /\ \A i \in Indices(input) : At(remap.to_index, i) < Len(remap.info)
    /\ \A c \in Indices(remap.info) : \E i \in Indices(input) : At(remap.to_index, i) = c
    /\ \A i \in Indices(input) :
          \/ \E j \in 0..(i - 1) : /\ fp[j] = fp[i]
                                   /\ At(remap.to_index, i) = At(remap.to_index, j)
          \/ At(remap.to_index, i) = Cardinality({fp[j] : j \in 0..(i - 1)})

\* C1: after filter_input has run over the materials (the meshes), to_index has one
\* entry per input element, every entry is below info.size(), to_index is onto
\* [0, info.size()), and an entry is that of an earlier element of the same fingerprint
\* or else the number of distinct fingerprints before it.
C1_RemapTables ==
    /\ MaterialsFiltered => RemapTable(state.material, scene.materials, MaterialFingerprint)
    /\ MeshesFiltered => RemapTable(state.mesh, scene.meshes, MeshFingerprint)

\* Both passes are done; two materials share a canonical index and two meshes do not.
C1_Witness ==
    /\ MeshesFiltered
    /\ state.material.to_index = <<0, 0>>
    /\ \E i, j \in Indices(scene.meshes) :
          At(state.mesh.to_index, i) # At(state.mesh.to_index, j)

\* The fields of a mesh that hash(const Mesh &) feeds as they are.
SameFields(a, b) ==
    /\ a.topology = b.topology
    /\ a.index_type = b.index_type
    /\ a.attribute_stride = b.attribute_stride
    /\ a.position_stride = b.position_stride
    /\ a.attribute_layout = b.attribute_layout
    /\ a.static_aabb = b.static_aabb
    /\ a.positions = b.positions
    /\ a.indices = b.indices
    /\ a.attributes = b.attributes
    /\ a.count = b.count
    /\ a.has_material = b.has_material

SameCanonicalMaterial(a, b) ==
    At(state.material.to_index, a.material_index)
        = At(state.material.to_index, b.material_index)

\* C2: two input meshes get the same canonical mesh index if and only if their
\* fingerprinted fields are equal and, when they have a material, their material
\* indices map to the same canonical material.
C2_MeshesMerged ==
    MeshesFiltered =>
        \A i, j \in Indices(scene.meshes) :
            LET a == At(scene.meshes, i)
                b == At(scene.meshes, j)
            IN  At(state.mesh.to_index, i) = At(state.mesh.to_index, j)
                    <=> /\ SameFields(a, b)
                        /\ a.has_material => SameCanonicalMaterial(a, b)

\* Two equal meshes that reference two different materials of one fingerprint are one
\* canonical mesh.
C2_Witness ==
    /\ MeshesFiltered
    /\ \E i, j \in Indices(scene.meshes) :
          LET a == At(scene.meshes, i)
              b == At(scene.meshes, j)
          IN  /\ a.has_material /\ b.has_material
              /\ a.material_index # b.material_index
              /\ At(scene.materials, a.material_index)
                     # At(scene.materials, b.material_index)
              /\ At(state.mesh.to_index, i) = At(state.mesh.to_index, j)

\* C3: when the mesh fingerprints are computed the material remap table has an entry
\* for every input material, and no step after the material pass changes it.
C3_MaterialsFirst ==
    [][/\ pc = "filter_mesh" => Len(state.material.to_index) = Len(scene.materials)
       /\ pc # "filter_material" => state'.material = state.material]_vars

\* The meshes are filtered, and one of them has read a material table of two entries.
C3_Witness ==
    /\ MeshesFiltered
    /\ Len(scene.materials) = 2
    /\ \E i \in Indices(scene.meshes) :
          /\ At(scene.meshes, i).has_material
          /\ At(scene.meshes, i).material_index = 1

(***************************************************************************)
(* Properties of the emit caches.                                          *)
(***************************************************************************)
EmitOps == {"emit_buffer", "emit_accessor", "emit_sampler", "emit_image", "emit_texture",
            "emit_meshes"}

\* The hash map and the record list of the cache an emit function works on.
HashOf(st, op) ==
    CASE op = "emit_buffer" -> st.buffer_hash
      [] op = "emit_accessor" -> st.accessor_hash
      [] op = "emit_sampler" -> st.sampler_hash
      [] op = "emit_image" -> st.image_hash
      [] op = "emit_texture" -> st.texture_hash
      [] op = "emit_meshes" -> st.mesh_group_hash

CacheOf(st, op) ==
    CASE op = "emit_buffer" -> st.buffer_views
      [] op = "emit_accessor" -> st.accessor_cache
      [] op = "emit_sampler" -> st.sampler_cache
      [] op = "emit_image" -> st.image_cache
      [] op = "emit_texture" -> st.texture_cache
      [] op = "emit_meshes" -> st.mesh_group_cache

\* The fingerprint the call op(a) looks up when it starts in st.
CallFingerprint(st, op, a) ==
    CASE op = "emit_buffer" -> <<"buffer", a[1], a[2]>>
      [] op = "emit_accessor" -> <<"accessor", a[1], a[2], a[3], a[4], a[5]>>
      [] op = "emit_sampler" -> <<"sampler", a[1]>>
      [] op = "emit_image" -> <<"image", a[1].path, a[2], a[3], a[4], a[5]>>
      [] op = "emit_texture" ->
           LET image == <<"image", a[1].path, a[3], a[4], a[5], a[6]>>
               sampler == <<"sampler", a[2]>>
           IN  <<"texture",
                 IF Has(st.image_hash, image) THEN st.image_hash[image]
                                              ELSE Len(st.image_cache),
                 IF Has(st.sampler_hash, sampler) THEN st.sampler_hash[sampler]
                                                  ELSE Len(st.sampler_cache)>>
      [] op = "emit_meshes" ->
           <<"mesh_group", [k \in 1..Len(a[1]) |-> At(st.mesh.to_index, a[1][k])]>>

\* A cache record but for the bounding box emit_mesh writes into a position accessor.
Payload(op, record) ==
    IF op = "emit_accessor" THEN [record EXCEPT !.aabb = NoAABB, !.use_aabb = FALSE]
    ELSE record

\* From st to st2 the cache of op kept its records in place and its fingerprints mapped.
CacheKept(st, st2, op) ==
    /\ Len(CacheOf(st2, op)) >= Len(CacheOf(st, op))
    /\ \A i \in 1..Len(CacheOf(st, op)) :
          Payload(op, CacheOf(st2, op)[i]) = Payload(op, CacheOf(st, op)[i])
    /\ \A h \in DOMAIN HashOf(st, op) :
          /\ Has(HashOf(st2, op), h)
          /\ HashOf(st2, op)[h] = HashOf(st, op)[h]

\* C4: an emit call whose fingerprint is present returns the index recorded for it and
\* appends nothing; one whose fingerprint is absent appends one record and returns the
\* previous size of the cache; no step shrinks or reorders a cache or changes the index
\* a fingerprint maps to.  (A call that throws returns nothing.)
C4_EmitCaches ==
    [][/\ (call'.n = call.n + 1 /\ ~call'.thrown) =>
              LET op == call'.op
                  h == CallFingerprint(state, op, call'.args)
              IN  IF Has(HashOf(state, op), h)
                  THEN /\ call'.ret = HashOf(state, op)[h]
                       /\ Len(CacheOf(state', op)) = Len(CacheOf(state, op))
                  ELSE /\ call'.ret = Len(CacheOf(state, op))
                       /\ Len(CacheOf(state', op)) = Len(CacheOf(state, op)) + 1
       /\ \A op \in EmitOps : CacheKept(state, state', op)]_vars

\* emit_buffer has just hit the first of two cached views.
C4_Witness ==
    /\ call.op = "emit_buffer"
    /\ call.n = 3
    /\ call.ret = 0
    /\ Len(state.buffer_views) = 2

\* C5: every buffer view starts at a multiple of 16 and ends inside the binary blob.
C5_BufferViews ==
    \A i \in 1..Len(state.buffer_views) :
        LET view == state.buffer_views[i]
        IN  /\ view.offset % 16 = 0
            /\ view.offset + view.length <= Len(state.glb_buffer_data)

\* emit_buffer has placed a view after one whose end is not a multiple of 16.
C5_Witness ==
    /\ call.op = "emit_buffer"
    /\ Len(state.buffer_views) = 2
    /\ state.buffer_views[1].length = 3
    /\ state.buffer_views[2].offset = 16
    /\ state.buffer_views[2].length = 4

(***************************************************************************)
(* Properties of the emitted accessors.                                    *)
(***************************************************************************)
\* The canonical meshes emit_mesh has completed, each with its source mesh.
EmittedMeshes == state.mesh_hash

SourceMesh(k) == At(scene.meshes, At(state.mesh.info, k))

\* The attribute slots of canonical mesh k that have an accessor.
DeclaredSlots(k) ==
    {i \in 0..(AttributeCount - 1) :
        SourceMesh(k).attribute_layout[i].format # VK_FORMAT_UNDEFINED}

SlotBytes(k, i) ==
    IF i = Position THEN SourceMesh(k).positions ELSE SourceMesh(k).attributes

SlotStride(k, i) ==
    IF i = Position THEN SourceMesh(k).position_stride ELSE SourceMesh(k).attribute_stride

SlotAccessor(k, i) ==
    At(state.accessor_cache, At(state.mesh_cache, k).attribute_accessor[i])

IndexSize(k) == IF SourceMesh(k).index_type = "UINT16" THEN 2 ELSE 4

IndexAccessor(k) == At(state.accessor_cache, At(state.mesh_cache, k).index_accessor)

\* offset + count * stride of accessor acc is within the view it references.
WithinView(acc, offset, stride) ==
    /\ acc.view < Len(state.buffer_views)
    /\ offset + acc.count * stride <= At(state.buffer_views, acc.view).length

\* C6: every accessor in the accessor cache references a buffer view that exists.
C6_AccessorViews ==
    \A a \in 1..Len(state.accessor_cache) :
        state.accessor_cache[a].view < Len(state.buffer_views)

\* C7 as stated: for every accessor emitted by emit_mesh, offset + count * stride is at
\* most the length of its buffer view, with the stride passed to emit_accessor and the
\* offset of the attribute's layout.
C7_OffsetPlusExtent ==
    \A k \in EmittedMeshes :
        /\ SourceMesh(k).indices # <<>> => WithinView(IndexAccessor(k), 0, IndexSize(k))
        /\ \A i \in DeclaredSlots(k) :
              WithinView(SlotAccessor(k, i), SourceMesh(k).attribute_layout[i].offset,
                         SlotStride(k, i))

\* C7: of the accessors emit_mesh emitted, a Position or attribute accessor of a
\* non-empty byte array references the view of that array and has count * stride at most
\* the length of the view, the layout offset not counted; one of an empty array has
\* count 0 and view 0; an index accessor has the count of the mesh over the view of the
\* index bytes.
C7_AttributeExtent ==
    \A k \in EmittedMeshes :
        /\ \A i \in DeclaredSlots(k) :
              IF SlotBytes(k, i) # <<>>
              THEN /\ WithinView(SlotAccessor(k, i), 0, SlotStride(k, i))
                   /\ At(state.buffer_views, SlotAccessor(k, i).view).length
                          = Len(SlotBytes(k, i))
              ELSE /\ SlotAccessor(k, i).count = 0
                   /\ SlotAccessor(k, i).view = 0
        /\ SourceMesh(k).indices # <<>> =>
              /\ IndexAccessor(k).count = SourceMesh(k).count
              /\ IndexAccessor(k).view < Len(state.buffer_views)
              /\ At(state.buffer_views, IndexAccessor(k).view).length
                     = Len(SourceMesh(k).indices)

\* An interleaved attribute at a non-zero offset has been emitted: its count is the
\* number of whole elements of the attribute bytes.
C7_Witness ==
    \E k \in EmittedMeshes :
        \E i \in DeclaredSlots(k) :
            /\ i # Position
            /\ SourceMesh(k).attribute_layout[i].offset > 0
            /\ SlotBytes(k, i) # <<>>
            /\ SlotAccessor(k, i).count * SlotStride(k, i) = Len(SlotBytes(k, i))

\* "bufferViews" and "accessors" of the document: one entry per record, in cache order.
DocumentBufferViews ==
    [i \in 1..Len(state.buffer_views) |->
        [byteLength |-> state.buffer_views[i].length,
         byteOffset |-> state.buffer_views[i].offset,
         byteStride |-> state.buffer_views[i].stride]]

DocumentAccessors ==
    [i \in 1..Len(state.accessor_cache) |->
        [bufferView |-> state.accessor_cache[i].view,
         componentType |-> state.accessor_cache[i].component,
         type |-> state.accessor_cache[i].type,
         count |-> state.accessor_cache[i].count,
         byteOffset |-> state.accessor_cache[i].offset]]

\* The size in bytes of a glTF component type and the components of an accessor type.
ComponentSize(componentType) ==
    CASE componentType \in {GL_BYTE, GL_UNSIGNED_BYTE} -> 1
      [] componentType \in {GL_SHORT, GL_UNSIGNED_SHORT} -> 2
      [] componentType \in {GL_INT, GL_UNSIGNED_INT, GL_FLOAT} -> 4

ComponentCount(type) ==
    CASE type = "SCALAR" -> 1
      [] type = "VEC2" -> 2
      [] type = "VEC3" -> 3
      [] type = "VEC4" -> 4

WholeElements(bytes, stride) == bytes = <<>> \/ (stride > 0 /\ Len(bytes) % stride = 0)

\* Every byte array of the scene is a whole multiple of its stride.
WholeStrides ==
    \A m \in 1..Len(scene.meshes) :
        LET mesh == scene.meshes[m]
        IN  /\ WholeElements(mesh.positions, mesh.position_stride)
            /\ WholeElements(mesh.attributes, mesh.attribute_stride)
            /\ WholeElements(mesh.indices, IF mesh.index_type = "UINT16" THEN 2 ELSE 4)

\* C8: in the document of a scene whose byte arrays are whole multiples of their
\* strides, byteOffset + count * component size * component count of every accessor is
\* at most the byteLength of the buffer view it references.
C8_AccessorBounds ==
    (pc = "walked" /\ WholeStrides) =>
        \A a \in 1..Len(DocumentAccessors) :
            LET acc == DocumentAccessors[a]
            IN  /\ acc.bufferView < Len(DocumentBufferViews)
                /\ acc.byteOffset
                     + acc.count * ComponentSize(acc.componentType)
                                 * ComponentCount(acc.type)
                       <= At(DocumentBufferViews, acc.bufferView).byteLength

(***************************************************************************)
(* Properties of the emitted textures and materials.                       *)
(***************************************************************************)
MaterialSlots(m) == {m.base_color, m.normal, m.metallic_roughness, m.occlusion, m.emissive}

EnvironmentSlots(e) == {e.cube, e.reflection, e.irradiance}

\* C9: every texture record has an image index and a sampler index inside their caches,
\* and every non-negative texture slot of an emitted material or environment is inside
\* the texture cache.
C9_TextureIndices ==
    /\ \A t \in 1..Len(state.texture_cache) :
          /\ state.texture_cache[t].image < Len(state.image_cache)
          /\ state.texture_cache[t].sampler < Len(state.sampler_cache)
    /\ \A m \in 1..Len(state.material_cache) :
          \A slot \in MaterialSlots(state.material_cache[m]) :
              slot >= 0 => slot < Len(state.texture_cache)
    /\ \A e \in 1..Len(state.environment_cache) :
          \A slot \in EnvironmentSlots(state.environment_cache[e]) :
              slot >= 0 => slot < Len(state.texture_cache)

\* A material with a texture and an environment with a cube map have been emitted, and
\* the textures are not all of one image.
C9_Witness ==
    /\ \E m \in 1..Len(state.material_cache) : state.material_cache[m].base_color >= 0
    /\ \E e \in 1..Len(state.environment_cache) : state.environment_cache[e].cube >= 0
    /\ \E t \in 1..Len(state.texture_cache) : state.texture_cache[t].image > 0

\* "materials" of the document: one entry per record of material_cache, in order; a
\* texture member is written when the slot is not negative.
DocumentMaterials == state.material_cache

\* C10: for every input material and each of its texture references with a non-empty
\* path, the record of the document's materials array at the material's canonical
\* index, when the array has one, has that texture slot >= 0.
C10_MaterialSlots ==
    pc = "walked" =>
        \A i \in Indices(scene.materials) :
            LET material == At(scene.materials, i)
                k == At(state.material.to_index, i)
            IN  k < Len(DocumentMaterials) =>
                    /\ material.base_color.path # "" =>
                           At(DocumentMaterials, k).base_color >= 0
                    /\ material.normal.path # "" => At(DocumentMaterials, k).normal >= 0
                    /\ material.occlusion.path # "" =>
                           At(DocumentMaterials, k).occlusion >= 0
                    /\ material.metallic_roughness.path # "" =>
                           At(DocumentMaterials, k).metallic_roughness >= 0
                    /\ material.emissive.path # "" =>
                           At(DocumentMaterials, k).emissive >= 0

(***************************************************************************)
(* Properties of the mesh groups and the images.                           *)
(***************************************************************************)
\* The canonical mesh indices a mesh list maps to, element by element.
CanonicalSequence(st, meshes) ==
    [k \in 1..Len(meshes) |-> At(st.mesh.to_index, meshes[k])]

\* C11: a call of emit_meshes returns the index of the mesh group that holds the
\* canonical sequence of its mesh list; the groups recorded before stay at their index,
\* and no two groups hold the same sequence.  Two calls therefore return the same index
\* if and only if their lists map to the same canonical sequence, and the meshes array
\* has one entry per distinct sequence.
C11_MeshGroups ==
    [][(call'.op = "emit_meshes" /\ call'.n = call.n + 1 /\ ~call'.thrown) =>
          LET seq == CanonicalSequence(state, call'.args[1])
          IN  /\ call'.ret < Len(state'.mesh_group_cache)
              /\ At(state'.mesh_group_cache, call'.ret) = seq
              /\ \A i \in Indices(state.mesh_group_cache) :
                    /\ At(state'.mesh_group_cache, i) = At(state.mesh_group_cache, i)
                    /\ call'.ret = i <=> At(state.mesh_group_cache, i) = seq
              /\ \A i, j \in Indices(state'.mesh_group_cache) :
                    At(state'.mesh_group_cache, i) = At(state'.mesh_group_cache, j)
                        => i = j]_vars

\* Two groups are recorded, and the list of input mesh 2 has just been given the group
\* of input mesh 0, the mesh it is a duplicate of.
C11_Witness ==
    /\ call.op = "emit_meshes"
    /\ call.args = <<<<2>>>>
    /\ call.ret = 0
    /\ state.mesh_group_cache = <<<<0>>, <<0, 1>>>>

\* What an image record keeps of the request that made it, the swizzle left out.
ImageKey(image) ==
    <<image.source_path, image.type, image.compression, image.compression_quality,
      image.mode>>

\* C12: a call of emit_image returns the index of the image record that has the path,
\* role, family, quality and mode of the request; the records made before stay at their
\* index, and no two records agree on these five.  Two requests therefore return the
\* same index if and only if they agree on (path, role, family, quality, mode), whatever
\* their swizzles.
C12_ImageKeys ==
    [][(call'.op = "emit_image" /\ call'.n = call.n + 1) =>
          LET a == call'.args
              key == <<a[1].path, a[2], a[3], a[4], a[5]>>
          IN  /\ call'.ret < Len(state'.image_cache)
              /\ ImageKey(At(state'.image_cache, call'.ret)) = key
              /\ \A i \in Indices(state.image_cache) :
                    /\ At(state'.image_cache, i) = At(state.image_cache, i)
                    /\ call'.ret = i <=> ImageKey(At(state.image_cache, i)) = key
              /\ \A i, j \in Indices(state'.image_cache) :
                    ImageKey(At(state'.image_cache, i)) = ImageKey(At(state'.image_cache, j))
                        => i = j]_vars

\* A request with a swizzle of its own has been given the image of an earlier request
\* of the same path, role, family, quality and mode, and another image is recorded.
C12_Witness ==
    /\ call.op = "emit_image"
    /\ call.args[1].swizzle # IdentitySwizzle
    /\ Len(state.image_cache) = 2
    /\ call.ret = 0
    /\ At(state.image_cache, 0).swizzle = IdentitySwizzle
    /\ At(state.image_cache, 0).source_path = call.args[1].path

(***************************************************************************)
(* Properties of the bounding boxes of the accessors.                      *)
(***************************************************************************)
\* C13: after the node walk, an accessor with use_aabb set is the Position accessor of
\* an emitted mesh, and it is neither the index accessor nor the accessor of another
\* attribute of any emitted mesh.
C13_AabbOnlyOnPositions ==
    pc = "walked" =>
        \A a \in Indices(state.accessor_cache) :
            At(state.accessor_cache, a).use_aabb =>
                /\ \E k \in EmittedMeshes :
                      /\ Position \in DeclaredSlots(k)
                      /\ At(state.mesh_cache, k).attribute_accessor[Position] = a
                /\ \A k \in EmittedMeshes :
                      /\ SourceMesh(k).indices # <<>> =>
                             At(state.mesh_cache, k).index_accessor # a
                      /\ \A i \in DeclaredSlots(k) \ {Position} :
                             At(state.mesh_cache, k).attribute_accessor[i] # a

(***************************************************************************)
(* Properties of the format tables.                                        *)
(***************************************************************************)
\* C14: get_accessor_component of a supported format is FLOAT for 32-bit floats,
\* UNSIGNED_BYTE for 8-bit UNORM and UINT, BYTE for 8-bit SNORM and SINT, UNSIGNED_SHORT
\* for 16-bit UNORM and UINT, SHORT for 16-bit SNORM and SINT, UNSIGNED_INT for 32-bit
\* UINT and INT for 32-bit SINT.
C14_ComponentTypes ==
    (call.op = "get_accessor_component" /\ ~call.thrown) =>
        LET f == call.args[1]
            unsigned == f.numeric \in {"UNORM", "UINT"}
        IN  call.ret = CASE f.numeric = "SFLOAT" -> GL_FLOAT
                         [] f.bits = 8 /\ unsigned -> GL_UNSIGNED_BYTE
                         [] f.bits = 8 /\ ~unsigned -> GL_BYTE
                         [] f.bits = 16 /\ unsigned -> GL_UNSIGNED_SHORT
                         [] f.bits = 16 /\ ~unsigned -> GL_SHORT
                         [] f.bits = 32 /\ f.numeric = "UINT" -> GL_UNSIGNED_INT
                         [] f.bits = 32 /\ f.numeric = "SINT" -> GL_INT

\* C15: get_accessor_type of a supported format is SCALAR, VEC2, VEC3 or VEC4 for a
\* format of one, two, three or four channels.
C15_TypeNames ==
    (call.op = "get_accessor_type" /\ ~call.thrown) =>
        call.ret = CASE call.args[1].channels = 1 -> "SCALAR"
                     [] call.args[1].channels = 2 -> "VEC2"
                     [] call.args[1].channels = 3 -> "VEC3"
                     [] call.args[1].channels = 4 -> "VEC4"

(***************************************************************************)
(* Properties of the errors.                                               *)
(***************************************************************************)
\* How export_scene_to_glb has been left, if it has: the exception of get_accessor_type
\* or get_accessor_component passes through emit_accessor, emit_mesh, emit_meshes and
\* export_scene_to_glb, none of which has a handler.
ExportOutcome == IF pc = "thrown" THEN "exception" ELSE "none"

\* C16: when an unsupported vertex format has reached emit_accessor during the node
\* walk, export_scene_to_glb has returned false to its caller.
C16_ErrorsReturnFalse == call.thrown => ExportOutcome = "return false"

(***************************************************************************)
(* Properties of the image analysis.                                       *)
(***************************************************************************)
\* The AnalysisResult of the image, and the one deduce_compression started with.
Analysis == At(state.image_cache, 0).loaded_image

Analyzed == pc = "analyzed" /\ Analysis.type \in Roles

BeforeDeduce == call.args[1]

\* C17: when deduce_compression has returned, the codec is Uncompressed for family
\* Uncompressed; ASTC6x6 for family ASTC, whatever the role and the mode; for family BC
\* it is BC6H when the mode is HDR, otherwise BC7 for BaseColor and Emissive, BC4 for
\* Occlusion, BC5 for Normal, and for MetallicRoughness BC5 when the metallic-roughness
\* mode is Default and BC4 otherwise.
C17_Codecs ==
    Analyzed =>
        Analysis.compression =
            CASE call.args[2] = "Uncompressed" -> "Uncompressed"
              [] call.args[2] = "ASTC" -> "ASTC6x6"
              [] call.args[2] = "BC" /\ Analysis.mode = "HDR" -> "BC6H"
              [] call.args[2] = "BC" /\ Analysis.mode # "HDR" ->
                   CASE Analysis.type \in {"BaseColor", "Emissive"} -> "BC7"
                     [] Analysis.type = "Occlusion" -> "BC4"
                     [] Analysis.type = "Normal" -> "BC5"
                     [] Analysis.type = "MetallicRoughness" ->
                          IF call.ret = "Default" THEN "BC5" ELSE "BC4"

\* A MetallicRoughness image of mode HDR whose metallic-roughness mode is not Default
\* has been given BC6H by family BC.
C17_Witness ==
    /\ Analyzed
    /\ Analysis.type = "MetallicRoughness"
    /\ Analysis.mode = "HDR"
    /\ call.ret = "MetallicRough"
    /\ call.args[2] = "BC"
    /\ Analysis.compression = "BC6H"

\* Channel c (1 = R .. 4 = A) of the image has the value v at every texel.
Everywhere(image, c, v) == \A i \in 1..Len(image.pixels) : image.pixels[i][c] = v

\* Channel c is neither 0 at every texel nor 255 at every texel.
Varies(image, c) == ~Everywhere(image, c, 0) /\ ~Everywhere(image, c, 255)

\* C18: the mode deduce_metallic_roughness_mode returns for an image of one layer and
\* one face is MetallicRough if G varies and B is 255 everywhere, MetallicSmooth if G
\* varies and B is 0 everywhere, RoughnessMetal if B varies and G is 255 everywhere,
\* RoughnessDielectric if B varies and G is 0 everywhere, and Default in every other
\* case; for an image of more layers or faces it is Default.
C18_MetallicRoughnessModes ==
    (call.op = "deduce_compression" /\ call.ret # "none") =>
        LET image == BeforeDeduce.image
            rough == Varies(image, 2) /\ Everywhere(image, 3, 255)
            smooth == Varies(image, 2) /\ Everywhere(image, 3, 0)
            metal == Varies(image, 3) /\ Everywhere(image, 2, 255)
            dielectric == Varies(image, 3) /\ Everywhere(image, 2, 0)
        IN  IF image.layers > 1 \/ image.faces > 1 THEN call.ret = "Default"
            ELSE /\ rough => call.ret = "MetallicRough"
                 /\ smooth => call.ret = "MetallicSmooth"
                 /\ metal => call.ret = "RoughnessMetal"
                 /\ dielectric => call.ret = "RoughnessDielectric"
                 /\ ~(rough \/ smooth \/ metal \/ dielectric) => call.ret = "Default"

\* The mode of an image of two texels that differ in G and have a B of 0 has been
\* deduced.
C18_Witness ==
    /\ call.op = "deduce_compression"
    /\ call.ret = "MetallicSmooth"
    /\ Len(BeforeDeduce.image.pixels) = 2
    /\ BeforeDeduce.image.pixels[1][2] # BeforeDeduce.image.pixels[2][2]

\* The image swizzle and the output swizzle of a family, a role and a metallic-roughness
\* mode, as the table of the plans gives them.
SwizzleTable(family, type, mr_mode) ==
    CASE family = "ASTC" /\ type = "Normal" ->
           [image |-> <<"R", "R", "R", "G">>, output |-> <<"R", "A", "ONE", "ONE">>]
      [] family = "ASTC" /\ type = "Occlusion" ->
           [image |-> <<"R", "R", "R", "R">>, output |-> IdentitySwizzle]
      [] family = "BC" /\ type = "MetallicRoughness" /\ mr_mode = "Default" ->
           [image |-> <<"G", "B", "B", "A">>, output |-> <<"ZERO", "R", "G", "ZERO">>]
      [] family = "ASTC" /\ type = "MetallicRoughness" /\ mr_mode = "Default" ->
           [image |-> <<"G", "G", "G", "B">>, output |-> <<"ZERO", "R", "A", "ZERO">>]
      [] /\ family \in {"BC", "ASTC"} /\ type = "MetallicRoughness"
         /\ mr_mode \in {"MetallicRough", "MetallicSmooth"} ->
           [image |-> <<"B", "B", "B", "B">>,
            output |-> <<"ZERO", IF mr_mode = "MetallicRough" THEN "ONE" ELSE "ZERO",
                         "R", "ZERO">>]
      [] /\ family \in {"BC", "ASTC"} /\ type = "MetallicRoughness"
         /\ mr_mode \in {"RoughnessMetal", "RoughnessDielectric"} ->
           [image |-> <<"G", "G", "G", "G">>,
            output |-> <<"ZERO", "R",
                         IF mr_mode = "RoughnessMetal" THEN "ONE" ELSE "ZERO", "ZERO">>]
      [] OTHER -> [image |-> IdentitySwizzle, output |-> IdentitySwizzle]

\* C19: when deduce_compression has returned, every texel of the image is the texel it
\* started with, permuted by the image swizzle of the table, and the recorded swizzle
\* is the output swizzle of the table; BaseColor, Emissive, BC Normal, BC Occlusion and
\* family Uncompressed leave the image as it was and the swizzle the identity.
C19_Swizzles ==
    Analyzed =>
        LET entry == SwizzleTable(call.args[2], Analysis.type, call.ret)
        IN  /\ Analysis.image.pixels =
                   [i \in 1..Len(BeforeDeduce.image.pixels) |->
                       [c \in 1..4 |-> Selected(BeforeDeduce.image.pixels[i],
                                                entry.image[c])]]
            /\ Analysis.swizzle = entry.output
            /\ entry.output = IdentitySwizzle => Analysis.swizzle = BeforeDeduce.swizzle

\* A Normal image has been planned for ASTC: R three times and G in its texel, and the
\* swizzle (R, A, ONE, ONE) recorded.
C19_Witness ==
    /\ Analyzed
    /\ call.args[2] = "ASTC"
    /\ Analysis.type = "Normal"
    /\ Analysis.swizzle = <<"R", "A", "ONE", "ONE">>
    /\ BeforeDeduce.image.pixels = <<<<10, 100, 255, 20>>>>
    /\ Analysis.image.pixels = <<<<10, 10, 10, 100>>>>

\* The texel a consumer reconstructs from a stored texel through an output swizzle:
\* ONE reads as 255 and ZERO as 0.
Reconstructed(texel, output) ==
    [c \in 1..4 |-> CASE output[c] = "ONE" -> 255
                      [] output[c] = "ZERO" -> 0
                      [] OTHER -> Selected(texel, output[c])]

\* The channels of the source a role uses: 1 is R, 2 is G, 3 is B and 4 is A.
UsedChannels(type) ==
    CASE type = "Normal" -> {1, 2}
      [] type = "Occlusion" -> {1}
      [] type = "MetallicRoughness" -> {2, 3}
      [] OTHER -> {1, 2, 3, 4}

\* C20: when deduce_compression has returned, the recorded output swizzle applied to
\* every stored texel gives back the channels of the source texel the role uses: R and
\* G for Normal, R for Occlusion, G and B for MetallicRoughness whatever the
\* metallic-roughness mode, all four for BaseColor and Emissive.
C20_RoundTrip ==
    Analyzed =>
        \A i \in 1..Len(BeforeDeduce.image.pixels) :
            \A c \in UsedChannels(Analysis.type) :
                Reconstructed(Analysis.image.pixels[i], Analysis.swizzle)[c]
                    = BeforeDeduce.image.pixels[i][c]

\* The image of image_cache behind record i of "images", and its AnalysisResult.
Emitted == 0..(Len(doc.images) - 1)

Loaded(i) == At(state.image_cache, i).loaded_image

\* The code of a channel of an output swizzle in extras.swizzle.
SwizzleCode(s) ==
    CASE s = "R" -> 0 [] s = "G" -> 1 [] s = "B" -> 2 [] s = "A" -> 3
      [] s = "ONE" -> 4 [] s = "ZERO" -> 5

\* The mapping a swizzle stands for: IDENTITY in channel c is the channel itself.
Mapping(swizzle) ==
    [c \in 1..4 |-> IF swizzle[c] = "IDENTITY" THEN IdentitySwizzle[c] ELSE swizzle[c]]

\* C21: a record of "images" has extras.swizzle only when the final swizzle of its image
\* is not the identity mapping, and then its four entries are the codes of that
\* swizzle; also for an image whose source could not be loaded.
C21_SwizzleExtras ==
    \A i \in Emitted :
        At(doc.images, i).extras # {} =>
            /\ Mapping(Loaded(i).swizzle) # IdentitySwizzle
            /\ At(doc.images, i).extras =
                   {<<"swizzle", [c \in 1..4 |-> SwizzleCode(Loaded(i).swizzle[c])]>>}

\* The extras a record of "images" has for a swizzle of the four channels: none for the
\* identity, else the codes, a channel left IDENTITY being itself.
ExtrasOf(swizzle) ==
    IF swizzle = IdentitySwizzle THEN {}
    ELSE {<<"swizzle", [c \in 1..4 |-> IF swizzle[c] = "IDENTITY" THEN c - 1
                                      ELSE SwizzleCode(swizzle[c])]>>}

\* C22: while and after the records of "images" are written no analysis task is
\* pending or running, and the swizzle a record is written from is the swizzle of the
\* AnalysisResult of its image, not the swizzle of the material.
C22_JoinBarrier ==
    /\ (pc \in {"json", "return", "returned"} \/ doc.images # <<>>) =>
           /\ Len(workers) >= Len(state.image_cache)
           /\ \A t \in TaskIds :
                 At(workers, t).kind = "analysis" => At(workers, t).status = "done"
    /\ \A i \in Emitted : At(doc.images, i).extras = ExtrasOf(Loaded(i).swizzle)

\* Two records are written: a base colour referred to with (B, G, R, A) has no extras,
\* and a normal map referred to with the identity has the codes of (R, A, ONE, ONE).
C22_Witness ==
    /\ Len(doc.images) = 2
    /\ At(state.image_cache, 0).swizzle = <<"B", "G", "R", "A">>
    /\ At(doc.images, 0).extras = {}
    /\ At(state.image_cache, 1).swizzle = IdentitySwizzle
    /\ At(doc.images, 1).extras = {<<"swizzle", <<0, 3, 4, 4>>>>}

\* The RemapState without the AnalysisResults its images point to.
Caches(st) ==
    [st EXCEPT !.image_cache =
        [i \in 1..Len(st.image_cache) |-> [st.image_cache[i] EXCEPT !.loaded_image = "null"]]]

\* a = b for two values each of which is a null pointer or a record.
SameValue(a, b) == ToString(a) = ToString(b)

\* a = b for two AnalysisResults, whose image may be a null pointer.
SameResult(a, b) ==
    /\ a.src_path = b.src_path
    /\ a.compression = b.compression
    /\ a.swizzle = b.swizzle
    /\ SameValue(a.image, b.image)

\* The tasks at work on image i.
Running(tasks, i) ==
    {t \in 0..(Len(tasks) - 1) : At(tasks, t).image = i /\ At(tasks, t).status = "running"}

TasksOf(kind, i) ==
    {t \in TaskIds : At(workers, t).kind \in kind /\ At(workers, t).image = i}

\* C24: an encode or save task that has started belongs to an image whose mipmap task
\* is done; tasks of different images are not ordered.
C24_MipgenBeforeEncode ==
    \A t \in TaskIds :
        (At(workers, t).kind \in {"encode", "save"} /\ At(workers, t).status # "pending") =>
            /\ TasksOf({"mipgen"}, At(workers, t).image) # {}
            /\ \A m \in TasksOf({"mipgen"}, At(workers, t).image) :
                  At(workers, m).status = "done"

\* The encode task of the first image and the mipmap task of the second image are at
\* work at the same time.
C24_Witness ==
    /\ \E t \in TasksOf({"encode", "save"}, 0) : At(workers, t).status = "running"
    /\ \E m \in TasksOf({"mipgen"}, 1) : At(workers, m).status = "running"

\* C25: when export_scene_to_glb has returned, with true or with false, every task
\* created on workers is done.
C25_TasksJoined ==
    pc = "returned" =>
        /\ doc.ret \in {TRUE, FALSE}
        /\ \A t \in TaskIds : At(workers, t).status = "done"

\* export_scene_to_glb has returned false; a mipmap task and an encode task were
\* created and are done.
C25_Witness ==
    /\ pc = "returned"
    /\ doc.ret = FALSE
    /\ \E t, m \in TaskIds : /\ At(workers, t).kind \in {"encode", "save"}
                             /\ At(workers, m).kind = "mipgen"
                             /\ At(workers, t).status = "done"
                             /\ At(workers, m).status = "done"

\* The target of image i exists and is at least as new as its source.
UpToDate(i) ==
    LET image == At(state.image_cache, i)
    IN  /\ Has(disk.source_modified, image.source_path)
        /\ Has(disk.target_modified, image.target_relpath)
        /\ disk.target_modified[image.target_relpath]
              >= disk.source_modified[image.source_path]

\* C26: once compress_image has been called for an image, the image has no mipmap
\* task and no encode task when its target exists with a modification time greater
\* than or equal to that of its source, and has both otherwise.
C26_IncrementalEncode ==
    \A i \in Emitted :
        IF UpToDate(i)
        THEN TasksOf({"mipgen", "encode", "save"}, i) = {}
        ELSE TasksOf({"mipgen"}, i) # {} /\ TasksOf({"encode", "save"}, i) # {}

\* C27: an image whose source could not be loaded has its record in "images" with its
\* uri and mimeType, has no mipmap task and no encode task, and its target file is not
\* written; and an export that wrote its GLB returns true.
C27_LoadFailureConfined ==
    /\ \A i \in Emitted :
          Loaded(i).image = EmptyTexture =>
              /\ At(doc.images, i).uri = At(state.image_cache, i).target_relpath
              /\ At(doc.images, i).mimeType = At(state.image_cache, i).target_mime
              /\ TasksOf({"mipgen", "encode", "save"}, i) = {}
              /\ At(state.image_cache, i).target_relpath \notin disk.written
    /\ (pc = "returned" /\ disk.glb = "written") => doc.ret = TRUE

\* C29: export_scene_to_glb returns false exactly when the GLB was not written, which
\* is when the file could not be opened or mapped; the step that fails takes no task
\* from workers, and when the export has returned the tasks created before have run.
C29_OutputFailure ==
    /\ pc \in {"return", "returned"} =>
          /\ doc.ret = (disk.glb = "written")
          /\ \A i \in Images :
                ~is_already_compressed(disk, At(state.image_cache, i).source_path,
                                       At(state.image_cache, i).target_relpath)
                    => TasksOf({"encode", "save"}, i) # {}
    /\ pc = "returned" =>
          \A i \in Images :
              (Loaded(i).image # EmptyTexture /\ TasksOf({"encode", "save"}, i) # {})
                  => At(state.image_cache, i).target_relpath \in disk.written

\* The file could not be mapped: the export has returned false without a GLB, and the
\* texture file of its image is written.
C29_Witness ==
    /\ pc = "returned"
    /\ doc.ret = FALSE
    /\ disk.glb = "opened"
    /\ disk.written # {}

\* The AnalysisResult of image i when its analysis runs alone: a function of the image
\* record and of the file behind it.
Sequential(i) ==
    LET image == At(state.image_cache, i)
        loaded == load_image(AnalysisResult(image.type, image.mode), image.source_path,
                             image.swizzle)
    IN  IF loaded.ret THEN deduce_compression(loaded.result, image.compression).result
        ELSE loaded.result

\* C30: in every interleaving of the tasks, the caches and the binary blob stay what
\* they were before the first task, and once the analysis is joined the swizzle and
\* the codec of every image, and every record of "images", are those the analysis of
\* the image gives when it runs alone.
C30_Determinism ==
    /\ [](pc \in {"json", "return", "returned"} =>
             /\ \A i \in Images : /\ Loaded(i).swizzle = Sequential(i).swizzle
                                  /\ Loaded(i).compression = Sequential(i).compression
             /\ \A i \in Emitted :
                   At(doc.images, i) =
                       image_json(At(state.image_cache, i), Sequential(i).swizzle))
    /\ [][Caches(state') = Caches(state)]_vars

\* The task of the second image is done, with the swizzle of a normal map, before the
\* task of the first image has started.
C30_Witness ==
    /\ Len(workers) = 2
    /\ At(workers, 0).status = "pending"
    /\ At(workers, 1).status = "done"
    /\ Loaded(1).swizzle = <<"R", "A", "ONE", "ONE">>

\* The least multiple of 4 that is not below n, for a size n far from 2^64.
Align4(n) ==
    CHOOSE a \in {Plus(n, Size(k)) : k \in 0..3} : a[1] % 4 = 0

\* A uint32_t read as a size.
Widened(v) == <<v[1], v[2], 0, 0>>

\* C28: in the file written for a JSON text of j bytes and a blob of b bytes, the size
\* of the file is 12 + 8 + align4(j) + 8 + align4(b) and the total_length field is that
\* number modulo 2^32; the length field of each chunk is align4 of the length of its
\* payload, a multiple of 4; the JSON payload is filled up with 0x20 and the BIN
\* payload with 0x00; and no write ends past the mapped size.
C28_GlbFraming ==
    pc = "returned" =>
        LET j == call.args[1]
            b == call.args[2]
            w == disk.glb.writes
            total == Plus(Plus(Plus(Size(20), Align4(j)), Size(8)), Align4(b))
        IN  /\ disk.glb.size = total
            /\ w[3].what = "total_length" /\ w[3].value = u32(total)
            /\ w[4].what = "chunk_length" /\ Widened(w[4].value) = Align4(j)
            /\ w[8].what = "chunk_length" /\ Widened(w[8].value) = Align4(b)
            /\ w[4].value[1] % 4 = 0 /\ w[8].value[1] % 4 = 0
            /\ w[6].what = "json" /\ w[6].length = j
            /\ w[7].value = <<32>> /\ Plus(j, w[7].length) = Align4(j)
            /\ w[10].what = "bin" /\ w[10].length = b
            /\ w[11].value = <<0>> /\ Plus(b, w[11].length) = Align4(b)
            /\ \A k \in 1..Len(w) : AtMost(Plus(w[k].at, w[k].length), disk.glb.size)

(***************************************************************************)
(* Properties of the environment.                                          *)
(***************************************************************************)
EnvironmentPaths ==
    {options.environment.cube, options.environment.reflection,
     options.environment.irradiance}

\* slot is what the claim asks of the slot of path: -1 for the empty path, else a
\* texture of the image of path with role Emissive, mode HDR, the family and quality of
\* the environment, and of the LinearClamp sampler.
EnvironmentTexture(slot, path) ==
    IF path = "" THEN slot = -1
    ELSE /\ slot >= 0
         /\ slot < Len(state.texture_cache)
         /\ LET texture == At(state.texture_cache, slot)
                image == At(state.image_cache, texture.image)
            IN  /\ image.source_path = path
                /\ image.type = "Emissive"
                /\ image.mode = "HDR"
                /\ image.compression = options.environment.compression
                /\ image.compression_quality = options.environment.texcomp_quality
                /\ At(state.sampler_cache, texture.sampler) = sampler_record("LinearClamp")

\* C31: at most one environment record exists; once the export has reached the node
\* walk, a record exists whenever the cube, the reflection or the irradiance path is not
\* empty, and each slot of the record is -1 for an empty path and otherwise a texture
\* with role Emissive, mode HDR, the LinearClamp sampler and the environment's own
\* compression family and quality.
C31_EnvironmentEmitted ==
    /\ Len(state.environment_cache) <= 1
    /\ pc \in {"nodes", "walked", "thrown"} =>
          /\ EnvironmentPaths # {""} => Len(state.environment_cache) = 1
          /\ \A e \in 1..Len(state.environment_cache) :
                /\ EnvironmentTexture(state.environment_cache[e].cube,
                                      options.environment.cube)
                /\ EnvironmentTexture(state.environment_cache[e].reflection,
                                      options.environment.reflection)
                /\ EnvironmentTexture(state.environment_cache[e].irradiance,
                                      options.environment.irradiance)

(***************************************************************************)
(* Properties of the buffer views.                                         *)
(***************************************************************************)
\* The bytes of the blob st.glb_buffer_data that view occupies.
ViewBytes(st, view) ==
    [k \in 1..view.length |-> st.glb_buffer_data[view.offset + k]]

\* The views are pairwise disjoint, their offsets grow with their index, and the blob
\* ends where the last view ends.
ViewsLaidOut(st) ==
    /\ \A i, j \in 1..Len(st.buffer_views) :
          i < j =>
              /\ st.buffer_views[i].offset + st.buffer_views[i].length
                     <= st.buffer_views[j].offset
              /\ st.buffer_views[i].offset < st.buffer_views[j].offset
    /\ Len(st.glb_buffer_data) =
           IF st.buffer_views = <<>> THEN 0
           ELSE st.buffer_views[Len(st.buffer_views)].offset
                    + st.buffer_views[Len(st.buffer_views)].length

\* The step is a call of emit_buffer that found its fingerprint in buffer_hash.
BufferHit ==
    /\ call'.n = call.n + 1
    /\ call'.op = "emit_buffer"
    /\ Has(state.buffer_hash, <<"buffer", call'.args[1], call'.args[2]>>)

\* The step is a call of emit_buffer that did not find its fingerprint.
BufferMiss ==
    /\ call'.n = call.n + 1
    /\ call'.op = "emit_buffer"
    /\ ~Has(state.buffer_hash, <<"buffer", call'.args[1], call'.args[2]>>)

\* C32: after any sequence of emit_buffer calls the buffer views occupy pairwise
\* disjoint byte ranges of the blob, their offsets are strictly increasing in the view
\* index and the blob size is offset + length of the last view (0 without a view); a
\* call that hits the cache changes neither the blob nor the view list, and a call that
\* misses changes no earlier view and none of its bytes.
C32_BufferLayout ==
    /\ []ViewsLaidOut(state)
    /\ [][/\ BufferHit =>
                /\ state'.glb_buffer_data = state.glb_buffer_data
                /\ state'.buffer_views = state.buffer_views
          /\ BufferMiss =>
                /\ Len(state'.buffer_views) = Len(state.buffer_views) + 1
                /\ \A i \in 1..Len(state.buffer_views) :
                      /\ state'.buffer_views[i] = state.buffer_views[i]
                      /\ ViewBytes(state', state.buffer_views[i])
                             = ViewBytes(state, state.buffer_views[i])]_vars

\* A third call of emit_buffer has hit the first of two views, the second of which
\* starts where the first ends.
C32_Witness ==
    /\ call.op = "emit_buffer"
    /\ call.n = 3
    /\ call.ret = 0
    /\ Len(state.buffer_views) = 2
    /\ state.buffer_views[1].length = 16
    /\ state.buffer_views[2].offset = 16

(***************************************************************************)
(* Properties of the node walk.                                            *)
(***************************************************************************)
\* C33: after the node walk, the AABB of the accessor that the Position attribute of an
\* emitted canonical mesh references equals the static AABB of that mesh, also when
\* canonical meshes of equal position bytes, stride, format and offset and of different
\* static AABBs share the accessor.
C33_PositionAabb ==
    pc = "walked" =>
        \A k \in EmittedMeshes :
            Position \in DeclaredSlots(k) =>
                At(state.accessor_cache,
                   At(state.mesh_cache, k).attribute_accessor[Position]).aabb
                    = SourceMesh(k).static_aabb

\* The primitives of the document's "meshes" array: one for each place of each mesh
\* group of mesh_group_cache; the canonical mesh at the place.
Primitives ==
    UNION {{<<g, s>> : s \in 1..Len(state.mesh_group_cache[g])} :
              g \in 1..Len(state.mesh_group_cache)}

Submesh(p) == state.mesh_group_cache[p[1]][p[2]]

\* C34: after a node walk emit_mesh has run at most once for each canonical mesh and
\* emit_material at most once for each canonical material; every canonical mesh index
\* of a mesh group is inside mesh_cache and emit_mesh has filled its entry; and the
\* material index a primitive with a material serializes, material.to_index of the
\* index its mesh_cache entry holds, is inside material_cache and emit_material has
\* filled its entry.
C34_EmittedOnce ==
    pc = "walked" =>
        /\ \A k \in DOMAIN state.emit_mesh_calls : state.emit_mesh_calls[k] <= 1
        /\ \A k \in DOMAIN state.emit_material_calls : state.emit_material_calls[k] <= 1
        /\ \A p \in Primitives :
              /\ Submesh(p) < Len(state.mesh_cache)
              /\ Count(state.emit_mesh_calls, Submesh(p)) >= 1
              /\ At(state.mesh_cache, Submesh(p)).material >= 0 =>
                    LET index == At(state.material.to_index,
                                    At(state.mesh_cache, Submesh(p)).material)
                    IN  /\ index < Len(state.material_cache)
                        /\ Count(state.emit_material_calls, index) >= 1

\* Two nodes have been walked, two canonical meshes share a canonical material, and a
\* canonical mesh is in two mesh groups.
C34_Witness ==
    /\ pc = "walked"
    /\ nodes = 2
    /\ \E k1, k2 \in EmittedMeshes :
          /\ k1 # k2
          /\ At(state.mesh_cache, k1).material >= 0
          /\ At(state.mesh_cache, k2).material >= 0
          /\ At(state.material.to_index, At(state.mesh_cache, k1).material)
                 = At(state.material.to_index, At(state.mesh_cache, k2).material)
    /\ \E p, q \in Primitives : p[1] # q[1] /\ Submesh(p) = Submesh(q)

\* The canonical materials and meshes emit_material and emit_mesh have been called with.
CalledMaterials == DOMAIN state.emit_material_calls

CalledMeshes == DOMAIN state.emit_mesh_calls

Maximum(S) == CHOOSE x \in S : \A y \in S : y <= x

\* The length of a cache that has been resized for the indices of S.
LengthFor(S) == IF S = {} THEN 0 ELSE 1 + Maximum(S)

Slots(material, emitted) ==
    {[texture |-> material.base_color, type |-> "BaseColor", slot |-> emitted.base_color],
     [texture |-> material.normal, type |-> "Normal", slot |-> emitted.normal],
     [texture |-> material.occlusion, type |-> "Occlusion", slot |-> emitted.occlusion],
     [texture |-> material.metallic_roughness, type |-> "MetallicRoughness",
      slot |-> emitted.metallic_roughness],
     [texture |-> material.emissive, type |-> "Emissive", slot |-> emitted.emissive]}

\* The first input material that has the fingerprint of input material i.
FirstMaterial(i) ==
    At(scene.materials,
       CHOOSE j \in Indices(scene.materials) :
           /\ MaterialFingerprint[j] = MaterialFingerprint[i]
           /\ \A l \in Indices(scene.materials) :
                 MaterialFingerprint[l] = MaterialFingerprint[i] => j <= l)

\* The emitted materials, each with the first input material of its fingerprint.
FirstOfEmitted ==
    {[first |-> FirstMaterial(i),
      emitted |-> At(state.material_cache, At(state.material.to_index, i))] :
        i \in {j \in Indices(scene.materials) :
                  At(state.material.to_index, j) \in state.material_hash}}

\* The references to a texture file made by the first materials of the emitted ones.
FirstRequests == UNION {Slots(m.first, m.emitted) : m \in FirstOfEmitted}

\* v is the beginning of w.
Prefix(v, w) == Len(v) <= Len(w) /\ \A i \in 1..Len(v) : v[i] = w[i]

TargetOf(t) == At(state.image_cache, At(workers, t).image).target_relpath

\* C37: an export creates one analysis task for each image record, none before the
\* loop reaches the image and never a second one, and at most one mipmap task and at
\* most one encode or save task, the two together or neither; different image records
\* have different target paths; hence two encode or save tasks that are at work at the
\* same time write different target files.
C37_OneWriterPerTarget ==
    /\ \A i \in Images :
          /\ Cardinality(TasksOf({"analysis"}, i)) =
                 IF pc = "images" /\ i >= Len(workers) THEN 0 ELSE 1
          /\ Cardinality(TasksOf({"mipgen"}, i)) <= 1
          /\ Cardinality(TasksOf({"encode", "save"}, i))
                 = Cardinality(TasksOf({"mipgen"}, i))
    /\ \A i, j \in Images :
          i # j => At(state.image_cache, i).target_relpath
                       # At(state.image_cache, j).target_relpath
    /\ \A t, u \in TaskIds :
          (/\ t # u
           /\ At(workers, t).kind \in {"encode", "save"}
           /\ At(workers, u).kind \in {"encode", "save"}
           /\ At(workers, t).status = "running"
           /\ At(workers, u).status = "running") => TargetOf(t) # TargetOf(u)

\* The encode tasks of two images are at work at the same time.
C37_Witness ==
    /\ Len(state.image_cache) = 2
    /\ \E t \in TasksOf({"encode", "save"}, 0) : At(workers, t).status = "running"
    /\ \E u \in TasksOf({"encode", "save"}, 1) : At(workers, u).status = "running"

====
